---- MODULE Spec2Model ----
(***************************************************************************)
(* A model of the hybrid retrieval and answer-composition services of the  *)
(* invoice assistant: AgentRAGService (agent_rag_service.py),              *)
(* LangChainRAGService (langchain_rag_service.py) and search_invoices      *)
(* (rag_embedding_invoice.py).                                             *)
(*                                                                         *)
(* Texts are TLA+ strings; Ch(s, i) is the i-th character.  Python's None  *)
(* is None == {} and an integer n is Some(n) == {n} where a value may be   *)
(* None; a missing text (a None match) is the empty string.  Similarity    *)
(* scores are integers in hundredths (0.7 is 70).                          *)
(***************************************************************************)
EXTENDS Integers, Sequences, FiniteSets, TLC

(*------------------------------ characters ------------------------------*)

LowerLetters == "abcdefghijklmnopqrstuvwxyz"

UpperLetters == "ABCDEFGHIJKLMNOPQRSTUVWXYZ"

DigitChars == "0123456789"

Ch(s, i) == SubSeq(s, i, i)

CharsOf(letters) == {Ch(letters, i) : i \in 1..Len(letters)}

DigitSet == CharsOf(DigitChars)

LowerSet == CharsOf(LowerLetters)

UpperSet == CharsOf(UpperLetters)

IsDigit(c) == c \in DigitSet

IsLower(c) == c \in LowerSet

IsUpper(c) == c \in UpperSet

\* \w of a Python str pattern, over the ASCII characters of the model
IsWord(c) == IsDigit(c) \/ IsLower(c) \/ IsUpper(c) \/ c = "_"

\* \s
IsSpace(c) == c = " " \/ c = "\t" \/ c = "\n"

LowerOfUpper ==
    [c \in UpperSet |->
        Ch(LowerLetters, CHOOSE i \in 1..Len(UpperLetters) : Ch(UpperLetters, i) = c)]

LowerChar(c) == IF IsUpper(c) THEN LowerOfUpper[c] ELSE c

RECURSIVE LowerFrom(_, _)
LowerFrom(s, i) == IF i > Len(s) THEN "" ELSE LowerChar(Ch(s, i)) \o LowerFrom(s, i + 1)

\* str.lower()
Lower(s) == LowerFrom(s, 1)

\* the literal lit occurs in s at position i
MatchAt(s, lit, i) ==
    /\ i >= 1
    /\ i + Len(lit) - 1 <= Len(s)
    /\ SubSeq(s, i, i + Len(lit) - 1) = lit

\* Python's `lit in s` for a non-empty lit
Contains(s, lit) == \E i \in 1..Len(s) : MatchAt(s, lit, i)

\* every character of s[i..j] is a digit
AllDigits(s, i, j) == \A k \in i..j : IsDigit(Ch(s, k))

RECURSIVE DigitRunEnd(_, _)
\* the end of the maximal digit run that starts at i (i - 1 when s[i] is no digit)
DigitRunEnd(s, i) ==
    IF i <= Len(s) /\ IsDigit(Ch(s, i)) THEN DigitRunEnd(s, i + 1) ELSE i - 1

\* \b between positions i - 1 and i of s
WordBoundary(s, i) ==
    LET before == i >= 2 /\ i - 1 <= Len(s) /\ IsWord(Ch(s, i - 1))
        after == i >= 1 /\ i <= Len(s) /\ IsWord(Ch(s, i))
    IN before # after

\* the least element of a non-empty set of integers
Least(S) == CHOOSE x \in S : \A y \in S : x <= y

(*------------------------ Python None and truth -------------------------*)

None == {}

Some(n) == {n}

\* `if user_id:` : None and 0 are both false
Truthy(v) == v # None /\ v # Some(0)

(*---------------------------- regular expressions ------------------------*)

RECURSIVE LowerRunEnd(_, _)
LowerRunEnd(s, i) ==
    IF i <= Len(s) /\ IsLower(Ch(s, i)) THEN LowerRunEnd(s, i + 1) ELSE i - 1

RECURSIVE SpaceRunEnd(_, _)
SpaceRunEnd(s, i) ==
    IF i <= Len(s) /\ IsSpace(Ch(s, i)) THEN SpaceRunEnd(s, i + 1) ELSE i - 1

\* re.search(prefix + r"(\d+)", s): group(1) of the leftmost match, "" when
\* there is none.  \d+ is greedy: the group is the maximal digit run.
SearchPrefixDigits(s, prefix) ==
    LET starts == {i \in 1..Len(s) :
                      /\ MatchAt(s, prefix, i)
                      /\ i + Len(prefix) <= Len(s)
                      /\ IsDigit(Ch(s, i + Len(prefix)))}
    IN IF starts = {}
       THEN ""
       ELSE LET d == Least(starts) + Len(prefix)
            IN SubSeq(s, d, DigitRunEnd(s, d))

\* re.search(r'\b(\d{5})\b', s): group(1) of the leftmost match, "" when none
SearchFiveDigits(s) ==
    LET starts == {i \in 1..Len(s) :
                      /\ i + 4 <= Len(s)
                      /\ WordBoundary(s, i)
                      /\ AllDigits(s, i, i + 4)
                      /\ WordBoundary(s, i + 5)}
    IN IF starts = {} THEN "" ELSE SubSeq(s, Least(starts), Least(starts) + 4)

\* where the five digits of \b(?:order|invoice)(?:\s*id)?\s*(\d{5})\b start when
\* the match starts at i with the word w; 0 when there is no match at i
OrderDigitsStart(s, w, i) ==
    IF ~(WordBoundary(s, i) /\ MatchAt(s, w, i))
    THEN 0
    ELSE LET s1 == SpaceRunEnd(s, i + Len(w))
             afterId == IF MatchAt(s, "id", s1 + 1)
                        THEN SpaceRunEnd(s, s1 + 3) + 1
                        ELSE 0
             fits(d) == /\ d >= 1
                        /\ d + 4 <= Len(s)
                        /\ AllDigits(s, d, d + 4)
                        /\ WordBoundary(s, d + 5)
         IN IF fits(afterId) THEN afterId
            ELSE IF fits(s1 + 1) THEN s1 + 1
            ELSE 0

\* re.search(r'\b(?:order|invoice)(?:\s*id)?\s*(\d{5})\b', s): group(1), "" when none
SearchOrderFiveDigits(s) ==
    LET at(i) == IF OrderDigitsStart(s, "order", i) # 0
                 THEN OrderDigitsStart(s, "order", i)
                 ELSE OrderDigitsStart(s, "invoice", i)
        starts == {i \in 1..Len(s) : at(i) # 0}
    IN IF starts = {}
       THEN ""
       ELSE SubSeq(s, at(Least(starts)), at(Least(starts)) + 4)

\* where r'\b([A-Z][a-z]+\s+[A-Z][a-z]+)\b' ends when it starts at i; 0 when
\* there is no match at i
CustomerEnd(s, i) ==
    IF ~(i <= Len(s) /\ WordBoundary(s, i) /\ IsUpper(Ch(s, i)))
    THEN 0
    ELSE LET a == LowerRunEnd(s, i + 1)
             b == SpaceRunEnd(s, a + 1)
             c == LowerRunEnd(s, b + 2)
         IN IF /\ a >= i + 1
               /\ b >= a + 1
               /\ b + 1 <= Len(s)
               /\ IsUpper(Ch(s, b + 1))
               /\ c >= b + 2
               /\ WordBoundary(s, c + 1)
            THEN c
            ELSE 0

\* re.search(r'\b([A-Z][a-z]+\s+[A-Z][a-z]+)\b', s): group(1), "" when none
SearchCustomer(s) ==
    LET starts == {i \in 1..Len(s) : CustomerEnd(s, i) # 0}
    IN IF starts = {}
       THEN ""
       ELSE SubSeq(s, Least(starts), CustomerEnd(s, Least(starts)))

\* re.search(r'\$?(\d+\.?\d*)', s): group(1), "" when none
SearchAmount(s) ==
    LET starts == {i \in 1..Len(s) : IsDigit(Ch(s, i))}
    IN IF starts = {}
       THEN ""
       ELSE LET d == Least(starts)
                e == DigitRunEnd(s, d)
                f == IF e + 1 <= Len(s) /\ Ch(s, e + 1) = "."
                     THEN DigitRunEnd(s, e + 2)
                     ELSE e
            IN SubSeq(s, d, f)

\* any(keyword in text for keyword in keywords)
AnyIn(text, keywords) == \E k \in 1..Len(keywords) : Contains(text, keywords[k])

(*--------------------------- strategy selection -------------------------*)

ExactOrderPrefixes == <<"order id ", "order ", "invoice ">>

RECURSIVE FirstPrefixMatch(_, _)
FirstPrefixMatch(s, k) ==
    IF k > Len(ExactOrderPrefixes)
    THEN ""
    ELSE IF SearchPrefixDigits(s, ExactOrderPrefixes[k]) # ""
         THEN SearchPrefixDigits(s, ExactOrderPrefixes[k])
         ELSE FirstPrefixMatch(s, k + 1)

\* AgentRAGService._is_exact_order_query: the identifier, "" for None
Agent_is_exact_order_query(question) == FirstPrefixMatch(Lower(question), 1)

\* the six patterns of _determine_strategy, as the texts they are
StrategyPatterns ==
    <<"order id \\d+", "invoice \\d+", "order \\d+",
      "customer \\w+", "total price \\d+", "dated \\d+">>

VectorPatterns == <<"product", "item", "contains", "includes", "what products">>

\* LangChainRAGService._determine_strategy: each pattern is tested with `in`,
\* that is as a literal substring of the lower-cased question
LC_determine_strategy(question) ==
    IF AnyIn(Lower(question), StrategyPatterns)
    THEN "direct_sql"
    ELSE IF AnyIn(Lower(question), VectorPatterns)
         THEN "vector_search"
         ELSE "vector_search"

SqlKeywords ==
    <<"how many", "count", "total", "sum", "average", "most", "least",
      "top", "bottom", "all orders", "all customers", "all products">>

\* _needs_sql_query without its test of the extracted customers and orders
Agent_needs_sql_query_keywords_only(question, metadata_context) ==
    AnyIn(Lower(question), SqlKeywords)

\* AgentRAGService._needs_sql_query
Agent_needs_sql_query(question, metadata_context) ==
    \/ AnyIn(Lower(question), SqlKeywords)
    \/ Cardinality(metadata_context.customers) > 0
    \/ Cardinality(metadata_context.order_ids) > 0

(*------------------------------- the stores -----------------------------*)

\* The invoices table the queries read (the columns the queries name).  Order
\* 10250 exists for two tenants.
Invoices ==
    <<[id |-> 1, user_id |-> 1, order_id |-> "10250", contact_name |-> "Mario Pontes",
       invoice_date |-> "2016-07-08", total_price |-> "1813"],
      [id |-> 2, user_id |-> 2, order_id |-> "10252", contact_name |-> "Pascale Cartrain",
       invoice_date |-> "2016-07-09", total_price |-> "3730"],
      [id |-> 3, user_id |-> 2, order_id |-> "10250", contact_name |-> "Mary Saveley",
       invoice_date |-> "2016-07-15", total_price |-> "2490.5"]>>

\* The records of the vector index, as store_invoice_vectors writes their
\* metadata; a field a record type does not carry is "" (None for invoice_id).
VectorRecords ==
    {[type |-> "invoice", user_id |-> 1, invoice_id |-> Some(1), order_id |-> "10250",
      contact_name |-> "Mario Pontes", product_name |-> "",
      invoice_date |-> "2016-07-08", total_price |-> "1813"],
     [type |-> "line_item", user_id |-> 1, invoice_id |-> Some(1), order_id |-> "10250",
      contact_name |-> "Mario Pontes", product_name |-> "Stapler",
      invoice_date |-> "", total_price |-> ""],
     [type |-> "invoice", user_id |-> 2, invoice_id |-> Some(2), order_id |-> "10252",
      contact_name |-> "Pascale Cartrain", product_name |-> "",
      invoice_date |-> "2016-07-09", total_price |-> "3730"]}

\* raw similarities the index may report, in hundredths
RawScores == {60, 75}

\* most matches one index query returns in the model
MaxHits == 2

OrderBoost == 30

InvoiceBoost == 10

RelevanceThreshold == 70

(*------------------------------ vector search ---------------------------*)

\* filter_dict of search_invoices: the tenant filter is set only when user_id
\* is true, so neither for None nor for 0
FilterDict(user_id) == IF Truthy(user_id) THEN user_id ELSE None

\* index.query(..., filter=filter_dict): the records the filter lets through
Filtered(filter_dict) ==
    {r \in VectorRecords : filter_dict = None \/ Some(r.user_id) = filter_dict}

Descending(matches) ==
    \A i \in 1..Len(matches) - 1 : matches[i].score >= matches[i + 1].score

\* what index.query may return: at most `limit` matches over distinct records
\* that pass the filter, by raw similarity descending
QueryResults(filter_dict, limit) ==
    LET Match == [score : RawScores, metadata : Filtered(filter_dict)]
    IN {m \in UNION {[1..n -> Match] : n \in 0..limit} :
           /\ Descending(m)
           /\ \A i, j \in 1..Len(m) : i # j => m[i].metadata # m[j].metadata}

\* _rerank_results with `-=` for the `+=` of the order boost
Boosted_order_penalty(matches, query) ==
    LET order_id == SearchFiveDigits(query)
        boost1(m) == IF order_id # "" /\ m.metadata.order_id = order_id
                     THEN [m EXCEPT !.score = @ - OrderBoost]
                     ELSE m
        boost2(m) == IF m.metadata.type = "invoice"
                     THEN [m EXCEPT !.score = @ + InvoiceBoost]
                     ELSE m
    IN [i \in 1..Len(matches) |-> boost2(boost1(matches[i]))]

\* the scores after the two boosts of _rerank_results (the matches are
\* updated in place)
Boosted(matches, query) ==
    LET order_id == SearchFiveDigits(query)
        boost1(m) == IF order_id # "" /\ m.metadata.order_id = order_id
                     THEN [m EXCEPT !.score = @ + OrderBoost]
                     ELSE m
        boost2(m) == IF m.metadata.type = "invoice"
                     THEN [m EXCEPT !.score = @ + InvoiceBoost]
                     ELSE m
    IN [i \in 1..Len(matches) |-> boost2(boost1(matches[i]))]

\* sorted(matches, key=score) without reverse=True: ascending
SortedByScoreAsc(matches) ==
    LET before(i, j) == \/ matches[i].score < matches[j].score
                        \/ (matches[i].score = matches[j].score /\ i < j)
        rank(i) == 1 + Cardinality({j \in 1..Len(matches) : before(j, i)})
    IN [k \in 1..Len(matches) |->
           matches[CHOOSE i \in 1..Len(matches) : rank(i) = k]]

\* sorted(matches, key=score)[::-1]: descending, equal scores in reverse order
SortedThenReversed(matches) ==
    LET before(i, j) == \/ matches[i].score > matches[j].score
                        \/ (matches[i].score = matches[j].score /\ i > j)
        rank(i) == 1 + Cardinality({j \in 1..Len(matches) : before(j, i)})
    IN [k \in 1..Len(matches) |->
           matches[CHOOSE i \in 1..Len(matches) : rank(i) = k]]

\* sorted(matches, key=score, reverse=True): stable, so the element at rank k
\* is the one with exactly k - 1 elements before it in the sorted order
SortedByScoreDesc(matches) ==
    LET before(i, j) == \/ matches[i].score > matches[j].score
                        \/ (matches[i].score = matches[j].score /\ i < j)
        rank(i) == 1 + Cardinality({j \in 1..Len(matches) : before(j, i)})
    IN [k \in 1..Len(matches) |->
           matches[CHOOSE i \in 1..Len(matches) : rank(i) = k]]

\* _rerank_results
rerank_results(matches, query) == SortedByScoreDesc(Boosted(matches, query))

\* s[:n]
Take(s, n) == SubSeq(s, 1, IF Len(s) < n THEN Len(s) ELSE n)

\* search_invoices that cuts the candidates to top_k before it re-ranks them
search_invoices_cut_first(matches, query, top_k) ==
    rerank_results(Take(matches, top_k), query)

\* search_invoices, given what index.query returned
search_invoices(matches, query, top_k) == Take(rerank_results(matches, query), top_k)

(*---------------------------- structured queries -------------------------*)

\* A query is [shape, conds, limit]: the shape names the SELECT, GROUP BY and
\* ORDER BY text, conds is the WHERE clause as the sequence of its AND-ed
\* conditions, limit is the LIMIT (0 for none).  A condition is
\* [kind, col, vals, uid]:
\*   "user_eq"      i.user_id = {user_id}
\*   "user_text"    ({user_id} IS NULL OR i.user_id = {user_id}), user_id
\*                  formatted into the text (None gives the text "None")
\*   "user_param"   (:user_id IS NULL OR i.user_id = :user_id), user_id bound
\*   "in"           i.col IN ('v1', 'v2', ...)
\*   "eq"           i.col = 'v'
\*   "ilike"        i.col ILIKE '%v%'
\*   "true"         1=1
Cond(kind, col, vals, uid) == [kind |-> kind, col |-> col, vals |-> vals, uid |-> uid]

Query(shape, conds, limit) == [shape |-> shape, conds |-> conds, limit |-> limit]

\* the orders in which "', '".join(a_set) may list the set
Orderings(S) ==
    {o \in [1..Cardinality(S) -> S] : \A i, j \in 1..Cardinality(S) : i # j => o[i] # o[j]}

\* the WHERE clause of AgentRAGService._build_targeted_sql; customer_list and
\* order_list are the two sets in the order the join lists them
Agent_where_clause(metadata_context, user_id, customer_list, order_list) ==
    LET base_conditions ==
            (IF Truthy(user_id)
             THEN <<Cond("user_eq", "user_id", <<>>, user_id)>> ELSE <<>>)
            \o (IF metadata_context.customers # {}
                THEN <<Cond("in", "contact_name", customer_list, None)>> ELSE <<>>)
            \o (IF metadata_context.order_ids # {}
                THEN <<Cond("in", "order_id", order_list, None)>> ELSE <<>>)
    IN IF base_conditions # <<>>
       THEN base_conditions
       ELSE <<Cond("true", "", <<>>, None)>>

\* _build_targeted_sql with the test for a count question left out
Agent_query_shape_no_count(question) ==
    IF AnyIn(Lower(question), <<"total spent", "how much", "total amount">>)
    THEN "spent_by_customer"
    ELSE IF AnyIn(Lower(question), <<"most ordered", "popular product", "top product">>)
         THEN "product_quantity"
         ELSE "detail"

\* _build_targeted_sql with the spend test before the count test
Agent_query_shape_spend_first(question) ==
    IF AnyIn(Lower(question), <<"total spent", "how much", "total amount">>)
    THEN "spent_by_customer"
    ELSE IF AnyIn(Lower(question), <<"how many orders", "count orders">>)
         THEN "count"
         ELSE IF AnyIn(Lower(question), <<"most ordered", "popular product", "top product">>)
              THEN "product_quantity"
              ELSE "detail"

\* the query shape AgentRAGService._build_targeted_sql chooses, and its LIMIT
Agent_query_shape(question) ==
    IF AnyIn(Lower(question), <<"how many orders", "count orders">>)
    THEN "count"
    ELSE IF AnyIn(Lower(question), <<"total spent", "how much", "total amount">>)
         THEN "spent_by_customer"
         ELSE IF AnyIn(Lower(question), <<"most ordered", "popular product", "top product">>)
              THEN "product_quantity"
              ELSE "detail"

Agent_query_limit(shape) ==
    IF shape = "product_quantity" THEN 10 ELSE IF shape = "detail" THEN 50 ELSE 0

\* the text of each of the four queries of _build_targeted_sql around its
\* WHERE clause: the SELECT list, the join, the GROUP BY and the ORDER BY
Agent_query_text ==
    [count |->
         [select |-> <<"COUNT(DISTINCT i.order_id)", "COUNT(DISTINCT i.contact_name)">>,
          join |-> "", group_by |-> "", order_by |-> ""],
     spent_by_customer |->
         [select |-> <<"i.contact_name", "SUM(i.total_price)", "COUNT(i.order_id)">>,
          join |-> "", group_by |-> "i.contact_name", order_by |-> "total_spent DESC"],
     product_quantity |->
         [select |-> <<"li.product_name", "SUM(li.quantity)", "COUNT(DISTINCT i.order_id)">>,
          join |-> "JOIN line_items li ON i.id = li.invoice_id",
          group_by |-> "li.product_name", order_by |-> "total_quantity DESC"],
     detail |->
         [select |-> <<"i.order_id", "i.contact_name", "i.invoice_date", "i.total_price",
                       "li.product_name", "li.quantity", "li.unit_price">>,
          join |-> "LEFT JOIN line_items li ON i.id = li.invoice_id",
          group_by |-> "", order_by |-> "i.invoice_date DESC"]]

\* AgentRAGService._build_targeted_sql
Agent_build_targeted_sql(question, metadata_context, user_id, customer_list, order_list) ==
    Query(Agent_query_shape(question),
          Agent_where_clause(metadata_context, user_id, customer_list, order_list),
          Agent_query_limit(Agent_query_shape(question)))

\* the query of AgentRAGService._handle_exact_order_query
Agent_exact_query(order_id, user_id) ==
    Query("exact_order",
          <<Cond("eq", "order_id", <<order_id>>, None),
            Cond("user_param", "user_id", <<>>, user_id)>>,
          0)

\* LangChainRAGService._build_sql_query
LC_build_sql_query(question, user_id) ==
    LET tenant == Cond("user_text", "user_id", <<>>, user_id)
        order_id == SearchOrderFiveDigits(Lower(question))
        customer == SearchCustomer(question)
        amount == SearchAmount(question)
    IN IF order_id # ""
       THEN Query("order_detail", <<Cond("eq", "order_id", <<order_id>>, None), tenant>>, 0)
       ELSE IF customer # ""
            THEN Query("by_customer",
                       <<Cond("ilike", "contact_name", <<customer>>, None), tenant>>, 0)
            ELSE IF amount # "" /\ AnyIn(Lower(question), <<"total", "price", "amount">>)
                 THEN Query("by_amount",
                            <<Cond("eq", "total_price", <<amount>>, None), tenant>>, 0)
                 ELSE Query("recent", <<tenant>>, 5)

(*------------------------------ the database ----------------------------*)

\* the query text is not SQL the database accepts: user_id None formatted
\* into the text reads "None IS NULL OR i.user_id = None"
Malformed(query) ==
    \E k \in 1..Len(query.conds) :
        query.conds[k].kind = "user_text" /\ query.conds[k].uid = None

\* the row satisfies one condition of a WHERE clause
Satisfies(row, cond) ==
    CASE cond.kind = "user_eq" -> Some(row.user_id) = cond.uid
      [] cond.kind \in {"user_text", "user_param"} ->
             cond.uid = None \/ Some(row.user_id) = cond.uid
      [] cond.kind = "in" -> \E k \in 1..Len(cond.vals) : row[cond.col] = cond.vals[k]
      [] cond.kind = "eq" -> row[cond.col] = cond.vals[1]
      [] cond.kind = "ilike" -> Contains(Lower(row[cond.col]), Lower(cond.vals[1]))
      [] OTHER -> TRUE

RECURSIVE SelectFrom(_, _)
SelectFrom(rows, query) ==
    IF rows = <<>>
    THEN <<>>
    ELSE (IF \A k \in 1..Len(query.conds) : Satisfies(Head(rows), query.conds[k])
          THEN <<Head(rows)>> ELSE <<>>)
         \o SelectFrom(Tail(rows), query)

\* the rows of the invoices table a query reads: those its WHERE clause
\* admits, cut to its LIMIT
MatchingRows(query) ==
    LET rows == SelectFrom(Invoices, query)
    IN IF query.limit > 0 THEN Take(rows, query.limit) ELSE rows

\* db.execute: [failed, error, rows].  It fails when the database does
\* (down) or when the query is malformed.
DbExecute(query, down) ==
    IF down
    THEN [failed |-> TRUE, error |-> "connection refused", rows |-> <<>>]
    ELSE IF Malformed(query)
         THEN [failed |-> TRUE, error |-> "column none does not exist", rows |-> <<>>]
         ELSE [failed |-> FALSE, error |-> "", rows |-> MatchingRows(query)]

\* dict(row._mapping): the row as a column-to-value mapping
RowMapping(row) == row

ErrorRow(message) == [error |-> message]

\* _execute_sql_query without its finally: the session is closed on the
\* success path only
Agent_execute_sql_query_unclosed(sql_query, down) ==
    LET result == DbExecute(sql_query, down)
    IN [raised |-> FALSE,
        value |-> IF result.failed
                  THEN <<ErrorRow(result.error)>>
                  ELSE [i \in 1..Len(result.rows) |-> RowMapping(result.rows[i])],
        opened |-> 1,
        closed |-> IF result.failed THEN 0 ELSE 1]

\* AgentRAGService._execute_sql_query: [raised, value, opened, closed].  The
\* session is opened before the try and closed in the finally; an exception
\* of db.execute is caught and returned as one error row.
Agent_execute_sql_query(sql_query, down) ==
    LET result == DbExecute(sql_query, down)
    IN [raised |-> FALSE,
        value |-> IF result.failed
                  THEN <<ErrorRow(result.error)>>
                  ELSE [i \in 1..Len(result.rows) |-> RowMapping(result.rows[i])],
        opened |-> 1,
        closed |-> 1]

\* _execute_sql_query without its except clause: a failure of db.execute
\* leaves the method after the finally
LC_execute_sql_query_raising(sql_query, down) ==
    LET result == DbExecute(sql_query, down)
    IN [raised |-> result.failed,
        value |-> [i \in 1..Len(result.rows) |-> RowMapping(result.rows[i])],
        opened |-> 1,
        closed |-> 1]

\* LangChainRAGService._execute_sql_query: the same try/except/finally
LC_execute_sql_query(sql_query, down) ==
    LET result == DbExecute(sql_query, down)
    IN [raised |-> FALSE,
        value |-> IF result.failed
                  THEN <<ErrorRow(result.error)>>
                  ELSE [i \in 1..Len(result.rows) |-> RowMapping(result.rows[i])],
        opened |-> 1,
        closed |-> 1]

(*------------------------- extraction and formatting --------------------*)

\* the order of str values that < and > give on dates (ISO text: digits and -)
DateChars == "-0123456789"

CharRank(c) == CHOOSE i \in 1..Len(DateChars) : Ch(DateChars, i) = c

RECURSIVE TextLess(_, _)
TextLess(a, b) ==
    IF b = "" THEN FALSE
    ELSE IF a = "" THEN TRUE
    ELSE IF Ch(a, 1) # Ch(b, 1) THEN CharRank(Ch(a, 1)) < CharRank(Ch(b, 1))
    ELSE TextLess(SubSeq(a, 2, Len(a)), SubSeq(b, 2, Len(b)))

\* the context with a date range that starts at a default date
EmptyContext_epoch ==
    [customers |-> {}, order_ids |-> {}, products |-> {}, invoice_ids |-> {},
     date_range |-> [min |-> "1970-01-01", max |-> "1970-01-01"], total_results |-> 0]

EmptyContext ==
    [customers |-> {}, order_ids |-> {}, products |-> {}, invoice_ids |-> {},
     date_range |-> [min |-> "", max |-> ""], total_results |-> 0]

\* a pass that takes the first date it meets as the min and the last as the max
ExtractOne_first_last(context, metadata) ==
    LET date == metadata.invoice_date
        dmin == context.date_range.min
    IN [customers |-> context.customers
                      \cup (IF metadata.contact_name # "" THEN {metadata.contact_name} ELSE {}),
        order_ids |-> context.order_ids
                      \cup (IF metadata.order_id # "" THEN {metadata.order_id} ELSE {}),
        products |-> context.products
                     \cup (IF metadata.product_name # "" THEN {metadata.product_name} ELSE {}),
        invoice_ids |-> context.invoice_ids
                        \cup (IF Truthy(metadata.invoice_id) THEN metadata.invoice_id ELSE {}),
        date_range |->
            IF date = ""
            THEN context.date_range
            ELSE [min |-> IF dmin = "" THEN date ELSE dmin,
                  max |-> date],
        total_results |-> context.total_results]

\* one pass of the loop of _extract_metadata_context
ExtractOne(context, metadata) ==
    LET date == metadata.invoice_date
        dmin == context.date_range.min
        dmax == context.date_range.max
    IN [customers |-> context.customers
                      \cup (IF metadata.contact_name # "" THEN {metadata.contact_name} ELSE {}),
        order_ids |-> context.order_ids
                      \cup (IF metadata.order_id # "" THEN {metadata.order_id} ELSE {}),
        products |-> context.products
                     \cup (IF metadata.product_name # "" THEN {metadata.product_name} ELSE {}),
        invoice_ids |-> context.invoice_ids
                        \cup (IF Truthy(metadata.invoice_id) THEN metadata.invoice_id ELSE {}),
        date_range |->
            IF date = ""
            THEN context.date_range
            ELSE [min |-> IF dmin = "" \/ TextLess(date, dmin) THEN date ELSE dmin,
                  max |-> IF dmax = "" \/ TextLess(dmax, date) THEN date ELSE dmax],
        total_results |-> context.total_results]

RECURSIVE ExtractFrom(_, _, _)
ExtractFrom(context, vector_results, k) ==
    IF k > Len(vector_results)
    THEN context
    ELSE ExtractFrom(ExtractOne(context, vector_results[k].metadata), vector_results, k + 1)

\* AgentRAGService._extract_metadata_context
Agent_extract_metadata_context(vector_results) ==
    ExtractFrom([EmptyContext EXCEPT !.total_results = Len(vector_results)],
                vector_results, 1)

RECURSIVE Join(_, _)
\* sep.join(parts)
Join(parts, sep) ==
    IF parts = <<>> THEN ""
    ELSE IF Len(parts) = 1 THEN parts[1]
    ELSE parts[1] \o sep \o Join(Tail(parts), sep)

RECURSIVE NumText(_)
\* str(n) for n >= 0
NumText(n) ==
    IF n < 10 THEN Ch(DigitChars, n + 1)
    ELSE NumText(n \div 10) \o Ch(DigitChars, (n % 10) + 1)

\* one entry of _format_vector_sources (rank, score, type, order_id, customer)
SourceEntry(result, rank) ==
    [rank |-> rank, score |-> result.score, type |-> result.metadata.type,
     order_id |-> result.metadata.order_id, customer |-> result.metadata.contact_name]

\* _format_vector_sources with the rank counted from 0
Agent_format_vector_sources_zero_based(results) ==
    [i \in 1..Len(results) |-> SourceEntry(results[i], i - 1)]

\* AgentRAGService._format_vector_sources
Agent_format_vector_sources(results) ==
    [i \in 1..Len(results) |-> SourceEntry(results[i], i)]

\* LangChainRAGService._format_vector_sources: the first five results
LC_format_vector_sources(results) ==
    [i \in 1..Len(Take(results, 5)) |-> SourceEntry(results[i], i)]

\* the line _format_vector_context of LangChainRAGService writes for a result
LC_context_line(result) ==
    "Invoice " \o result.metadata.order_id \o ": " \o result.metadata.contact_name
    \o ", Date: " \o result.metadata.invoice_date
    \o ", Total: $" \o result.metadata.total_price

NoRelevantResults == "No highly relevant results found."

RECURSIVE LC_context_parts_at_threshold(_)
\* context_parts with `score >= 0.7` for `score > 0.7`
LC_context_parts_at_threshold(results) ==
    IF results = <<>>
    THEN <<>>
    ELSE (IF /\ Head(results).score >= RelevanceThreshold
             /\ Head(results).metadata.type = "invoice"
          THEN <<LC_context_line(Head(results))>>
          ELSE <<>>)
         \o LC_context_parts_at_threshold(Tail(results))

RECURSIVE LC_context_parts(_)
\* context_parts of LangChainRAGService._format_vector_context, for results[:3]
LC_context_parts(results) ==
    IF results = <<>>
    THEN <<>>
    ELSE (IF /\ Head(results).score > RelevanceThreshold
             /\ Head(results).metadata.type = "invoice"
          THEN <<LC_context_line(Head(results))>>
          ELSE <<>>)
         \o LC_context_parts(Tail(results))

\* _format_vector_context without the marker for an empty context_parts
LC_format_vector_context_join_only(results) ==
    Join(LC_context_parts(Take(results, 3)), "\n")

\* LangChainRAGService._format_vector_context
LC_format_vector_context(results) ==
    IF LC_context_parts(Take(results, 3)) # <<>>
    THEN Join(LC_context_parts(Take(results, 3)), "\n")
    ELSE NoRelevantResults

\* the line AgentRAGService._format_vector_context writes for a result
Agent_context_line(result) ==
    IF result.metadata.type = "invoice"
    THEN "Invoice " \o result.metadata.order_id \o ": Customer "
         \o result.metadata.contact_name \o ", Date: " \o result.metadata.invoice_date
         \o ", Total: $" \o result.metadata.total_price
    ELSE IF result.metadata.type = "products"
         THEN "Order " \o result.metadata.order_id \o " products"
         ELSE "Product: " \o result.metadata.product_name
              \o ", Order: " \o result.metadata.order_id

\* AgentRAGService._format_vector_context
Agent_format_vector_context(results) ==
    Join([i \in 1..Len(results) |-> Agent_context_line(results[i])], "\n")

\* AgentRAGService._format_sql_context: the rows as they are (json.dumps)
\* unless there is none or the one row is an error row
Agent_format_sql_context(results) ==
    IF results = <<>> \/ (Len(results) = 1 /\ "error" \in DOMAIN results[1])
    THEN [text |-> "No structured data available", rows |-> <<>>]
    ELSE [text |-> "", rows |-> results]

(*-------------------------- conversational memory -----------------------*)

\* k of ConversationBufferWindowMemory(k=5, return_messages=True)
WindowK == 5

HumanMessage(content) == [role |-> "human", content |-> content]

AIMessage(content) == [role |-> "ai", content |-> content]

\* memory.chat_memory.messages of a session, <<>> while it has no memory
Messages(store, session_id) ==
    IF session_id \in DOMAIN store THEN store[session_id] ELSE <<>>

\* get_memory without its membership test: the session's memory is built
\* anew on every call
get_memory_fresh(store, session_id) ==
    [s \in DOMAIN store \cup {session_id} |->
        IF s = session_id THEN <<>> ELSE store[s]]

\* LangChainRAGService.get_memory: the store after get-or-create
get_memory(store, session_id) ==
    IF session_id \notin DOMAIN store
    THEN [s \in DOMAIN store \cup {session_id} |->
             IF s = session_id THEN <<>> ELSE store[s]]
    ELSE store

\* save_context called with the question in both places
save_context_question_twice(messages, question, answer) ==
    messages \o <<HumanMessage(question), AIMessage(question)>>

\* save_context that keeps the new exchange only
save_context_replacing(messages, question, answer) ==
    <<HumanMessage(question), AIMessage(answer)>>

\* save_context that appends the answer before the question
save_context_answer_first(messages, question, answer) ==
    messages \o <<AIMessage(answer), HumanMessage(question)>>

\* memory.save_context({"input": question}, {"output": answer}): the two
\* messages are appended to chat_memory.messages.  The window k is applied
\* by the memory's buffer property only, which the service never reads.
save_context(messages, question, answer) ==
    messages \o <<HumanMessage(question), AIMessage(answer)>>

\* messages[:n], the oldest messages in place of the latest
LastN_oldest(messages, n) ==
    IF Len(messages) <= n THEN messages ELSE SubSeq(messages, 1, n)

\* messages[-n:]
LastN(messages, n) ==
    IF Len(messages) <= n THEN messages
    ELSE SubSeq(messages, Len(messages) - n + 1, Len(messages))

HistoryLine(msg) ==
    IF msg.role = "human" THEN "Human: " \o msg.content
    ELSE "Assistant: " \o msg.content

NoPreviousConversation == "No previous conversation."

\* LangChainRAGService._format_chat_history
LC_format_chat_history(messages) ==
    IF messages = <<>>
    THEN NoPreviousConversation
    ELSE Join([i \in 1..Len(LastN(messages, 6)) |-> HistoryLine(LastN(messages, 6)[i])],
              "\n")

HistoryEntry(msg) ==
    [role |-> IF msg.role = "human" THEN "human" ELSE "assistant",
     content |-> msg.content]

\* LangChainRAGService.get_conversation_history
LC_get_conversation_history(store, session_id) ==
    IF session_id \notin DOMAIN store
    THEN <<>>
    ELSE [i \in 1..Len(store[session_id]) |-> HistoryEntry(store[session_id][i])]

(*-------------------------------- the state ------------------------------*)

VARIABLES
    deployed,         \* the service the router was started with
    memories,         \* LangChainRAGService.memories: session_id -> messages
    svc,              \* the service of the request in progress ("" for none)
    pc,               \* where the request is
    question,
    user_id,
    session_id,
    before,           \* memories as they were when the request came in
    chat_history,
    strategy,
    order_id,
    thinking_steps,
    sources,
    vector_results,
    metadata_context,
    context,
    prompt,
    answer,
    response,         \* None, or Some(the record returned)
    db_open,          \* structured-store sessions opened and not yet closed
    db_failed,        \* a structured query of this request failed
    searches,         \* index queries made by this request
    results,          \* the index query of search_invoices: top_k, requested, matches
    pending           \* requests received and not yet answered: id -> request

vars ==
    <<deployed, memories, svc, pc, question, user_id, session_id, before,
      chat_history, strategy, order_id, thinking_steps, sources, vector_results, metadata_context,
      context, prompt, answer, response, db_open, db_failed, searches, results, pending>>

\* the request-local variables
locals ==
    <<chat_history, strategy, order_id, thinking_steps, sources, vector_results,
      metadata_context, context, prompt, answer, response, db_failed, searches,
      results>>

NoPrompt == [template |-> "", chat_history |-> "", context |-> "", data |-> <<>>,
             question |-> ""]

\* no index query made
NoQuery == [top_k |-> 0, requested |-> 0, matches |-> <<>>]

NoSources == [vector_search |-> <<>>, database_query |-> None, sql_results |-> <<>>]

\* no request in progress
Idle ==
    /\ svc = "" /\ pc = "idle"
    /\ question = "" /\ user_id = None /\ session_id = ""
    /\ chat_history = "" /\ strategy = "" /\ order_id = ""
    /\ thinking_steps = <<>> /\ sources = NoSources
    /\ vector_results = <<>> /\ metadata_context = EmptyContext
    /\ results = NoQuery
    /\ context = "" /\ prompt = NoPrompt /\ answer = "" /\ response = None
    /\ db_failed = FALSE /\ searches = 0

\* routers/rag.py builds one service when the module is loaded: the agent
\* service in its first version, the LangChain service in the one in force
Init ==
    /\ deployed \in {"agent", "langchain"}
    /\ pending = << >>
    /\ memories = << >>
    /\ before = << >>
    /\ db_open = 0
    /\ Idle

(*------------------------------ the inputs ------------------------------*)

Questions ==
    {"What is order id 10252's total and also how many products overall?",
     "Show me invoice with Order ID 10250",
     "What invoices are for Mario Pontes?",
     "Show me VICTE customer orders",
     "Which invoice has total price 2490.5?",
     "Show invoices from July 15, 2016",
     "What products come with a stapler?",
     "How many orders for customer Mario Pontes?",
     "details of 10250",
     "show order 99999",
     "list order \\d+"}

UserIds == {None, Some(0), Some(1), Some(2)}

SessionIds == {"default", "s2"}

LLMReplies == {"Mario Pontes has 1 order.", "I do not know."}

\* the generation backend is unreachable
LLMDown == "<llm down>"

(*---------------------------- LangChainRAGService -----------------------*)

\* the request ends with the exception leaving answer_question
Raise ==
    /\ pc' = "raised"
    /\ response' = None

\* answer_question, lines 68-79: the memory is fetched (created when the
\* session has none), the history is rendered, the strategy is chosen
LC_answer_question(q, uid, sid) ==
    /\ deployed = "langchain" /\ pc = "idle"
    /\ svc' = "langchain"
    /\ question' = q /\ user_id' = uid /\ session_id' = sid
    /\ before' = memories
    /\ memories' = get_memory(memories, sid)
    /\ chat_history' = LC_format_chat_history(Messages(memories', sid))
    /\ strategy' = LC_determine_strategy(q)
    /\ thinking_steps' = <<"Strategy: " \o strategy'>>
    /\ sources' = NoSources
    /\ pc' = IF strategy' = "direct_sql" THEN "lc_direct_sql" ELSE "lc_vector_search"
    /\ UNCHANGED <<deployed, results, order_id, vector_results, metadata_context, context,
                   prompt, answer, response, db_open, db_failed, searches>>

\* _handle_direct_sql up to the prompt: the query is built and executed
LC_handle_direct_sql(down) ==
    /\ svc = "langchain" /\ pc = "lc_direct_sql"
    /\ LET sql_query == LC_build_sql_query(question, user_id)
           executed == LC_execute_sql_query(sql_query, down)
       IN /\ thinking_steps' = Append(thinking_steps, "Using direct SQL query")
          /\ db_failed' = DbExecute(sql_query, down).failed
          /\ db_open' = db_open + executed.opened - executed.closed
          /\ IF executed.raised
             THEN /\ sources' = [sources EXCEPT !.database_query = Some(sql_query)]
                  /\ Raise
                  /\ UNCHANGED prompt
             ELSE /\ sources' = [sources EXCEPT !.database_query = Some(sql_query),
                                                !.sql_results = executed.value]
                  /\ prompt' = [template |-> "sql_response_prompt",
                                chat_history |-> chat_history,
                                context |-> "",
                                data |-> executed.value,
                                question |-> question]
                  /\ pc' = "lc_generate"
                  /\ UNCHANGED response
    /\ UNCHANGED <<deployed, pending, results, memories, svc, question, user_id, session_id, before,
                   chat_history, strategy, order_id, vector_results, metadata_context,
                   context, answer, searches>>

\* _handle_vector_search up to the prompt: the search fails (the exception
\* leaves answer_question), or its results are formatted into the prompt
LC_handle_vector_search(down, matches) ==
    /\ svc = "langchain" /\ pc = "lc_vector_search"
    /\ matches \in QueryResults(FilterDict(user_id), MaxHits)
    /\ searches' = searches + 1
    /\ IF down
       THEN /\ thinking_steps' = Append(thinking_steps, "Using vector search")
            /\ Raise
            /\ UNCHANGED <<vector_results, sources, context, prompt, results>>
       ELSE /\ thinking_steps' = Append(thinking_steps, "Using vector search")
            /\ results' = [top_k |-> 10, requested |-> 2 * 10, matches |-> matches]
            /\ vector_results' = search_invoices(matches, question, 10)
            /\ sources' = [sources EXCEPT
                              !.vector_search = LC_format_vector_sources(vector_results')]
            /\ context' = LC_format_vector_context(vector_results')
            /\ prompt' = [template |-> "direct_answer_prompt",
                          chat_history |-> chat_history,
                          context |-> context',
                          data |-> <<>>,
                          question |-> question]
            /\ pc' = "lc_generate"
            /\ UNCHANGED response
    /\ UNCHANGED <<deployed, pending, memories, svc, question, user_id, session_id, before,
                   chat_history, strategy, order_id, metadata_context, answer,
                   db_open, db_failed>>

\* self.llm.invoke(prompt) of either handler: the reply is the answer, or
\* the backend's exception leaves answer_question
LC_invoke(reply) ==
    /\ svc = "langchain" /\ pc = "lc_generate"
    /\ IF reply = LLMDown
       THEN Raise /\ UNCHANGED answer
       ELSE answer' = reply /\ pc' = "lc_save" /\ UNCHANGED response
    /\ UNCHANGED <<deployed, pending, results, memories, svc, question, user_id, session_id, before,
                   chat_history, strategy, order_id, thinking_steps, sources,
                   vector_results, metadata_context, context, prompt, db_open,
                   db_failed, searches>>

\* answer_question, lines 85-95: the exchange is saved and the record returned
LC_save_and_return ==
    /\ svc = "langchain" /\ pc = "lc_save"
    /\ memories' = [memories EXCEPT
                       ![session_id] = save_context(@, question, answer)]
    /\ response' = Some([thinking |-> thinking_steps, answer |-> answer,
                         sources |-> sources, session_id |-> session_id])
    /\ pc' = "returned"
    /\ UNCHANGED <<deployed, pending, results, svc, question, user_id, session_id, before, chat_history,
                   strategy, order_id, thinking_steps, sources, vector_results,
                   metadata_context, context, prompt, answer, db_open, db_failed,
                   searches>>

\* a get_history that fetches the session's memory with get_memory
LC_get_history_creating(sid) ==
    /\ deployed = "langchain" /\ pc = "idle"
    /\ svc' = "history"
    /\ session_id' = sid
    /\ before' = memories
    /\ memories' = get_memory(memories, sid)
    /\ response' = Some([session_id |-> sid,
                         history |-> LC_get_conversation_history(memories', sid)])
    /\ pc' = "returned"
    /\ UNCHANGED <<deployed, pending, results, question, user_id, chat_history, strategy, order_id,
                   thinking_steps, sources, vector_results, metadata_context, context,
                   prompt, answer, db_open, db_failed, searches>>

\* get_history of the router: get_conversation_history, returned with the key
LC_get_history(sid) ==
    /\ deployed = "langchain" /\ pc = "idle"
    /\ svc' = "history"
    /\ session_id' = sid
    /\ before' = memories
    /\ response' = Some([session_id |-> sid,
                         history |-> LC_get_conversation_history(memories, sid)])
    /\ pc' = "returned"
    /\ UNCHANGED <<deployed, pending, results, memories, question, user_id, chat_history, strategy, order_id,
                   thinking_steps, sources, vector_results, metadata_context, context,
                   prompt, answer, db_open, db_failed, searches>>

\* the request is over (the record is sent, or the exception is); the
\* request's locals are gone
Finish ==
    /\ pc \in {"returned", "raised"}
    /\ svc' = "" /\ pc' = "idle"
    /\ question' = "" /\ user_id' = None /\ session_id' = ""
    /\ chat_history' = "" /\ strategy' = "" /\ order_id' = ""
    /\ thinking_steps' = <<>> /\ sources' = NoSources
    /\ vector_results' = <<>> /\ metadata_context' = EmptyContext
    /\ results' = NoQuery
    /\ context' = "" /\ prompt' = NoPrompt /\ answer' = "" /\ response' = None
    /\ db_failed' = FALSE /\ searches' = 0
    /\ before' = memories
    /\ UNCHANGED <<deployed, memories, db_open>>

(*------------------------------ AgentRAGService --------------------------*)

\* answer_question, lines 17-19: an identifier sends the request to the
\* exact lookup, anything else to the search
Agent_answer_question(q, uid) ==
    /\ deployed = "agent" /\ pc = "idle"
    /\ svc' = "agent"
    /\ question' = q /\ user_id' = uid
    /\ before' = memories
    /\ order_id' = Agent_is_exact_order_query(q)
    /\ pc' = IF order_id' # "" THEN "agent_exact" ELSE "agent_search"
    /\ UNCHANGED <<deployed, pending, results, memories, session_id, chat_history, strategy, thinking_steps, sources,
                   vector_results, metadata_context, context, prompt, answer, response,
                   db_open, db_failed, searches>>

\* the answer text of _handle_exact_order_query for the rows found (the
\* model's rows carry no line items)
ExactAnswer(oid, rows) ==
    "Invoice " \o oid \o ":\nCustomer: " \o rows[1].contact_name
    \o "\nDate: " \o rows[1].invoice_date
    \o "\nTotal: $" \o rows[1].total_price \o "\n\n"

\* _handle_exact_order_query without its `if not rows`: rows[0] of an empty
\* result raises
Agent_handle_exact_order_query_unchecked(oid, uid, down) ==
    LET query == Agent_exact_query(oid, uid)
        result == DbExecute(query, down)
        rows == result.rows
    IN IF result.failed \/ rows = <<>>
       THEN [raised |-> TRUE, value |-> None, opened |-> 1, closed |-> 1]
       ELSE [raised |-> FALSE,
             value |-> Some([thinking |-> <<"Direct SQL query for order ID " \o oid,
                                            "Found invoice with " \o NumText(Len(rows))
                                            \o " line items">>,
                             answer |-> ExactAnswer(oid, rows),
                             sources |-> [database_query |-> Some(query),
                                          sql_results |->
                                              [i \in 1..Len(rows) |-> RowMapping(rows[i])]]]),
             opened |-> 1, closed |-> 1]

\* _handle_exact_order_query: [raised, value, opened, closed].  db.execute is
\* in a try with a finally and no except: its exception leaves the method.
Agent_handle_exact_order_query(oid, uid, down) ==
    LET query == Agent_exact_query(oid, uid)
        result == DbExecute(query, down)
        rows == result.rows
    IN IF result.failed
       THEN [raised |-> TRUE, value |-> None, opened |-> 1, closed |-> 1]
       ELSE IF rows = <<>>
       THEN [raised |-> FALSE,
             value |-> Some([thinking |-> <<"Searched for exact order ID " \o oid,
                                            "No invoice found with this order ID">>,
                             answer |-> "No invoice found with Order ID " \o oid \o ".",
                             sources |-> [database_query |-> Some(query),
                                          sql_results |-> <<>>]]),
             opened |-> 1, closed |-> 1]
       ELSE [raised |-> FALSE,
             value |-> Some([thinking |-> <<"Direct SQL query for order ID " \o oid,
                                            "Found invoice with " \o NumText(Len(rows))
                                            \o " line items">>,
                             answer |-> ExactAnswer(oid, rows),
                             sources |-> [database_query |-> Some(query),
                                          sql_results |->
                                              [i \in 1..Len(rows) |-> RowMapping(rows[i])]]]),
             opened |-> 1, closed |-> 1]

\* an exact lookup that queries the index before it returns
Agent_exact_searching(down) ==
    /\ svc = "agent" /\ pc = "agent_exact"
    /\ LET handled == Agent_handle_exact_order_query(order_id, user_id, down)
       IN /\ db_failed' = DbExecute(Agent_exact_query(order_id, user_id), down).failed
          /\ db_open' = db_open + handled.opened - handled.closed
          /\ response' = handled.value
          /\ pc' = IF handled.raised THEN "raised" ELSE "returned"
    /\ searches' = searches + 1
    /\ UNCHANGED <<deployed, pending, results, memories, svc, question, user_id, session_id, before, chat_history,
                   strategy, order_id, thinking_steps, sources, vector_results,
                   metadata_context, context, prompt, answer>>

\* answer_question, line 19
Agent_exact(down) ==
    /\ svc = "agent" /\ pc = "agent_exact"
    /\ LET handled == Agent_handle_exact_order_query(order_id, user_id, down)
       IN /\ db_failed' = DbExecute(Agent_exact_query(order_id, user_id), down).failed
          /\ db_open' = db_open + handled.opened - handled.closed
          /\ response' = handled.value
          /\ pc' = IF handled.raised THEN "raised" ELSE "returned"
    /\ UNCHANGED <<deployed, pending, results, memories, svc, question, user_id, session_id, before, chat_history,
                   strategy, order_id, thinking_steps, sources, vector_results,
                   metadata_context, context, prompt, answer, searches>>

\* answer_question, lines 21-34 and 47: the search (its exception leaves
\* answer_question), the metadata, the sources and the choice of path
Agent_search(down, matches) ==
    /\ svc = "agent" /\ pc = "agent_search"
    /\ matches \in QueryResults(FilterDict(user_id), MaxHits)
    /\ searches' = searches + 1
    /\ IF down
       THEN /\ Raise
            /\ UNCHANGED <<vector_results, metadata_context, thinking_steps, sources,
                           strategy, results>>
       ELSE /\ results' = [top_k |-> 20, requested |-> 2 * 20, matches |-> matches]
            /\ vector_results' = search_invoices(matches, question, 20)
            /\ metadata_context' = Agent_extract_metadata_context(vector_results')
            /\ strategy' = IF Agent_needs_sql_query(question, metadata_context')
                           THEN "sql" ELSE "vector"
            /\ thinking_steps' =
                   <<"Vector search found " \o NumText(Len(vector_results'))
                     \o " relevant results",
                     "Extracted metadata: "
                     \o NumText(Cardinality(metadata_context'.customers))
                     \o " customers, "
                     \o NumText(Cardinality(metadata_context'.order_ids))
                     \o " orders, "
                     \o NumText(Cardinality(metadata_context'.products))
                     \o " products">>
                   \o (IF strategy' = "sql" THEN <<>>
                       ELSE <<"Using vector search only for semantic answer">>)
            /\ sources' = [NoSources EXCEPT
                              !.vector_search =
                                  Agent_format_vector_sources(Take(vector_results', 10))]
            /\ pc' = IF strategy' = "sql" THEN "agent_sql" ELSE "agent_vector_answer"
            /\ UNCHANGED response
    /\ UNCHANGED <<deployed, pending, memories, svc, question, user_id, session_id, before, chat_history,
                   order_id, context, prompt, answer, db_open, db_failed>>

\* answer_question, lines 35-43: the targeted query is built and executed
Agent_sql(down, customer_list, order_list) ==
    /\ svc = "agent" /\ pc = "agent_sql"
    /\ customer_list \in Orderings(metadata_context.customers)
    /\ order_list \in Orderings(metadata_context.order_ids)
    /\ LET sql_query == Agent_build_targeted_sql(question, metadata_context, user_id,
                                                 customer_list, order_list)
           executed == Agent_execute_sql_query(sql_query, down)
       IN /\ db_failed' = DbExecute(sql_query, down).failed
          /\ db_open' = db_open + executed.opened - executed.closed
          /\ IF executed.raised
             THEN /\ Raise
                  /\ sources' = [sources EXCEPT !.database_query = Some(sql_query)]
                  /\ thinking_steps' =
                         Append(thinking_steps,
                                "Question requires SQL aggregation - building targeted query")
             ELSE /\ sources' = [sources EXCEPT !.database_query = Some(sql_query),
                                                !.sql_results = executed.value]
                  /\ thinking_steps' =
                         thinking_steps
                         \o <<"Question requires SQL aggregation - building targeted query",
                              "SQL query returned " \o NumText(Len(executed.value))
                              \o " structured results">>
                  /\ pc' = "agent_combined_answer"
                  /\ UNCHANGED response
    /\ UNCHANGED <<deployed, pending, results, memories, svc, question, user_id, session_id, before, chat_history,
                   strategy, order_id, vector_results, metadata_context, context, prompt,
                   answer, searches>>

\* _generate_combined_answer (the later of the two definitions is the one in
\* force): the prompt and the completion
Agent_generate_combined_answer(reply) ==
    /\ svc = "agent" /\ pc = "agent_combined_answer"
    /\ context' = Agent_format_vector_context(Take(vector_results, 5))
    /\ prompt' = [template |-> "combined",
                  chat_history |-> "",
                  context |-> context',
                  data |-> <<Agent_format_sql_context(sources.sql_results)>>,
                  question |-> question]
    /\ IF reply = LLMDown
       THEN Raise /\ UNCHANGED answer
       ELSE /\ answer' = reply
            /\ response' = Some([thinking |-> thinking_steps, answer |-> reply,
                                 sources |-> sources])
            /\ pc' = "returned"
    /\ UNCHANGED <<deployed, pending, results, memories, svc, question, user_id, session_id, before, chat_history,
                   strategy, order_id, thinking_steps, sources, vector_results,
                   metadata_context, db_open, db_failed, searches>>

\* _generate_vector_answer: the prompt and the completion
Agent_generate_vector_answer(reply) ==
    /\ svc = "agent" /\ pc = "agent_vector_answer"
    /\ context' = Agent_format_vector_context(vector_results)
    /\ prompt' = [template |-> "vector",
                  chat_history |-> "",
                  context |-> context',
                  data |-> <<>>,
                  question |-> question]
    /\ IF reply = LLMDown
       THEN Raise /\ UNCHANGED answer
       ELSE /\ answer' = reply
            /\ response' = Some([thinking |-> thinking_steps, answer |-> reply,
                                 sources |-> sources])
            /\ pc' = "returned"
    /\ UNCHANGED <<deployed, pending, results, memories, svc, question, user_id, session_id, before, chat_history,
                   strategy, order_id, thinking_steps, sources, vector_results,
                   metadata_context, db_open, db_failed, searches>>

(*---------------------------- the specifications -------------------------*)

\* most exchanges the model stores, over all sessions
MaxExchanges == 6

StoredExchanges ==
    LET RECURSIVE Sum(_)
        Sum(S) == IF S = {} THEN 0
                  ELSE LET s == CHOOSE x \in S : TRUE
                       IN Len(memories[s]) \div 2 + Sum(S \ {s})
    IN Sum(DOMAIN memories)

\* most exchanges stored where the questions range over all of Questions
MaxStored == 1

LCNext(Qs, Us, Ss, Rs, cap) ==
    \/ \E q \in Qs, uid \in Us, sid \in Ss :
           /\ pc = "idle"
           /\ StoredExchanges < cap
           /\ LC_answer_question(q, uid, sid)
           /\ UNCHANGED pending
    \/ \E down \in BOOLEAN : LC_handle_direct_sql(down)
    \/ LC_handle_vector_search(TRUE, <<>>)
    \/ /\ pc = "lc_vector_search"
       /\ \E matches \in QueryResults(FilterDict(user_id), MaxHits) :
              LC_handle_vector_search(FALSE, matches)
    \/ \E reply \in Rs \cup {LLMDown} : LC_invoke(reply)
    \/ LC_save_and_return
    \/ \E sid \in Ss : LC_get_history(sid)
    \/ Finish /\ UNCHANGED pending

AgentNext ==
    \/ \E q \in Questions, uid \in UserIds : Agent_answer_question(q, uid)
    \/ \E down \in BOOLEAN : Agent_exact(down)
    \/ Agent_search(TRUE, <<>>)
    \/ /\ pc = "agent_search"
       /\ \E matches \in QueryResults(FilterDict(user_id), MaxHits) :
              Agent_search(FALSE, matches)
    \/ /\ pc = "agent_sql"
       /\ \E down \in BOOLEAN :
              \E customer_list \in Orderings(metadata_context.customers),
                 order_list \in Orderings(metadata_context.order_ids) :
                  Agent_sql(down, customer_list, order_list)
    \/ \E reply \in LLMReplies \cup {LLMDown} : Agent_generate_combined_answer(reply)
    \/ \E reply \in LLMReplies \cup {LLMDown} : Agent_generate_vector_answer(reply)
    \/ Finish /\ UNCHANGED pending

\* questions, tenants and replies of the long conversations
MemoryQuestions == {"list order \\d+", "hello"}

MemoryUserIds == {Some(1)}

MemoryReplies == {"ok"}

\* the reply of the generation backend to the LangChain service where the
\* questions range over all of Questions
LCReplies == {"I do not know."}

\* both services, every question and tenant, short conversations
Next ==
    \/ AgentNext
    \/ LCNext(Questions, UserIds, {"default"}, LCReplies, MaxStored)

Spec == Init /\ [][Next]_vars

\* LangChainRAGService over long conversations in two sessions
NextMemory == LCNext(MemoryQuestions, MemoryUserIds, SessionIds, MemoryReplies, MaxExchanges)

InitMemory == Init /\ deployed = "langchain"

SpecMemory == InitMemory /\ [][NextMemory]_vars

\* _build_targeted_sql on its own: questions of every keyword family and of
\* several at once, FilterContexts and tenants drawn from small sets, given to
\* the step of answer_question that builds and executes the query
SqlQuestions ==
    {"How many orders for customer Mario Pontes?",
     "COUNT ORDERS and the total amount per customer",
     "How many orders had the most ordered, popular product?",
     "How much was spent on the top product?",
     "Total spent by each customer",
     "Which is the most ordered item?",
     "What invoices are for Mario Pontes?"}

SqlContexts ==
    {[EmptyContext EXCEPT !.customers = c, !.order_ids = o] :
         c \in SUBSET {"Mario Pontes", "Pascale Cartrain"}, o \in SUBSET {"10250"}}

InitSql ==
    /\ deployed = "agent"
    /\ pending = << >>
    /\ memories = << >> /\ before = << >>
    /\ db_open = 0
    /\ svc = "agent" /\ pc = "agent_sql"
    /\ question \in SqlQuestions
    /\ user_id \in UserIds
    /\ metadata_context \in SqlContexts
    /\ session_id = "" /\ chat_history = "" /\ order_id = ""
    /\ strategy = "sql"
    /\ thinking_steps = <<>> /\ sources = NoSources
    /\ vector_results = <<>>
    /\ results = NoQuery
    /\ context = "" /\ prompt = NoPrompt /\ answer = "" /\ response = None
    /\ db_failed = FALSE /\ searches = 0

NextSql ==
    \E down \in BOOLEAN :
        \E customer_list \in Orderings(metadata_context.customers),
           order_list \in Orderings(metadata_context.order_ids) :
            Agent_sql(down, customer_list, order_list)

SpecSql == InitSql /\ [][NextSql]_vars

\* _rerank_results on its own: hit lists in any order and questions drawn
\* from small sets; vector_results holds the list, searches counts the
\* applications, each made to the result of the one before
RerankRecords ==
    VectorRecords
    \cup {[type |-> "products", user_id |-> 1, invoice_id |-> Some(1),
           order_id |-> "10250", contact_name |-> "Mario Pontes",
           product_name |-> "", invoice_date |-> "", total_price |-> ""]}

RerankScores == {60, 70, 100}

RerankQuestions ==
    {"details of 10250",
     "What products come with a stapler?",
     "Compare 10252 with 10250"}

\* most hits of a list
MaxRerankHits == 3

\* most applications in a row
MaxReranks == 2

HitLists ==
    LET Match == [score : RerankScores, metadata : RerankRecords]
    IN {m \in UNION {[1..n -> Match] : n \in 0..MaxRerankHits} :
           \A i, j \in 1..Len(m) : i # j => m[i].metadata # m[j].metadata}

InitRerank ==
    /\ deployed = "langchain"
    /\ pending = << >>
    /\ memories = << >> /\ before = << >>
    /\ db_open = 0
    /\ svc = "" /\ pc = "idle"
    /\ question \in RerankQuestions
    /\ vector_results \in HitLists
    /\ results = NoQuery
    /\ user_id = None /\ session_id = ""
    /\ chat_history = "" /\ strategy = "" /\ order_id = ""
    /\ thinking_steps = <<>> /\ sources = NoSources
    /\ metadata_context = EmptyContext
    /\ context = "" /\ prompt = NoPrompt /\ answer = "" /\ response = None
    /\ db_failed = FALSE /\ searches = 0

Rerank ==
    /\ searches < MaxReranks
    /\ vector_results' = rerank_results(vector_results, question)
    /\ searches' = searches + 1
    /\ UNCHANGED <<deployed, pending, results, memories, svc, pc, question, user_id, session_id, before,
                   chat_history, strategy, order_id, thinking_steps, sources,
                   metadata_context, context, prompt, answer, response, db_open,
                   db_failed>>

SpecRerank == InitRerank /\ [][Rerank]_vars

\* _extract_metadata_context on its own: hit lists with repeated hits and
\* with hits that lack fields; the list is extracted, reordered, extracted
\* again
ExtractRecords ==
    VectorRecords
    \cup {[type |-> "invoice", user_id |-> 1, invoice_id |-> None, order_id |-> "",
           contact_name |-> "", product_name |-> "",
           invoice_date |-> "2016-06-30", total_price |-> ""],
          [type |-> "", user_id |-> 1, invoice_id |-> None, order_id |-> "",
           contact_name |-> "", product_name |-> "",
           invoice_date |-> "", total_price |-> ""]}

\* most hits of a list
MaxExtractHits == 3

\* most reorderings of a list
MaxReorders == 2

ExtractLists ==
    LET Match == [score : {75}, metadata : ExtractRecords]
    IN UNION {[1..n -> Match] : n \in 0..MaxExtractHits}

InitExtract ==
    /\ deployed = "agent"
    /\ pending = << >>
    /\ memories = << >> /\ before = << >>
    /\ db_open = 0
    /\ svc = "" /\ pc = "idle"
    /\ question = ""
    /\ vector_results \in ExtractLists
    /\ results = NoQuery
    /\ user_id = None /\ session_id = ""
    /\ chat_history = "" /\ strategy = "" /\ order_id = ""
    /\ thinking_steps = <<>> /\ sources = NoSources
    /\ metadata_context = EmptyContext
    /\ context = "" /\ prompt = NoPrompt /\ answer = "" /\ response = None
    /\ db_failed = FALSE /\ searches = 0

Extract ==
    /\ pc = "idle"
    /\ metadata_context' = Agent_extract_metadata_context(vector_results)
    /\ pc' = "extracted"
    /\ UNCHANGED <<deployed, pending, results, memories, svc, question, user_id, session_id, before,
                   chat_history, strategy, order_id, thinking_steps, sources,
                   vector_results, context, prompt, answer, response, db_open,
                   db_failed, searches>>

\* the caller passes the same hits in another order
Reorder ==
    /\ pc = "extracted"
    /\ searches < MaxReorders
    /\ \E i, j \in 1..Len(vector_results) :
           /\ i < j
           /\ vector_results' = [vector_results EXCEPT ![i] = vector_results[j],
                                                       ![j] = vector_results[i]]
    /\ pc' = "idle"
    /\ searches' = searches + 1
    /\ UNCHANGED <<deployed, pending, results, memories, svc, question, user_id, session_id, before,
                   chat_history, strategy, order_id, thinking_steps, sources,
                   metadata_context, context, prompt, answer, response, db_open,
                   db_failed>>

NextExtract == Extract \/ Reorder

SpecExtract == InitExtract /\ [][NextExtract]_vars

\* Two requests received at the same time.  ask_question is an async def
\* that calls answer_question without awaiting anything (routers/rag.py:31-34),
\* so the event loop runs one call of answer_question to its end before it
\* starts the next; which of the two it takes first is open.
ConcurrentRequests ==
    [{1, 2} -> [question : MemoryQuestions, session_id : SessionIds,
                state : {"received"}, answer : {""}]]

InitConcurrent ==
    /\ deployed = "langchain"
    /\ memories = << >> /\ before = << >>
    /\ db_open = 0
    /\ Idle
    /\ pending \in ConcurrentRequests

\* the event loop starts the handler of a request it has received
Serve(r) ==
    /\ pending[r].state = "received"
    /\ LC_answer_question(pending[r].question, Some(1), pending[r].session_id)
    /\ pending' = [pending EXCEPT ![r].state = "running"]

\* the handler is over: the record is sent, or the exception is
Complete(r) ==
    /\ pending[r].state = "running"
    /\ pending' = [pending EXCEPT ![r].state = pc, ![r].answer = answer]
    /\ Finish

NextConcurrent ==
    \/ \E r \in DOMAIN pending : Serve(r)
    \/ \E down \in BOOLEAN : LC_handle_direct_sql(down)
    \/ LC_handle_vector_search(TRUE, <<>>)
    \/ /\ pc = "lc_vector_search"
       /\ \E matches \in QueryResults(FilterDict(user_id), MaxHits) :
              LC_handle_vector_search(FALSE, matches)
    \/ \E reply \in LLMReplies \cup {LLMDown} : LC_invoke(reply)
    \/ LC_save_and_return
    \/ \E r \in DOMAIN pending : Complete(r)

SpecConcurrent == InitConcurrent /\ [][NextConcurrent]_vars

\* search_invoices on its own, called with a top_k smaller than the number of
\* records of the index
MaxTopK == 2

SearchUserIds == {None, Some(1)}

InitSearch ==
    /\ deployed = "agent"
    /\ pending = << >>
    /\ memories = << >> /\ before = << >>
    /\ db_open = 0
    /\ svc = "" /\ pc = "idle"
    /\ question \in RerankQuestions
    /\ user_id \in SearchUserIds
    /\ vector_results = <<>>
    /\ results = NoQuery
    /\ session_id = ""
    /\ chat_history = "" /\ strategy = "" /\ order_id = ""
    /\ thinking_steps = <<>> /\ sources = NoSources
    /\ metadata_context = EmptyContext
    /\ context = "" /\ prompt = NoPrompt /\ answer = "" /\ response = None
    /\ db_failed = FALSE /\ searches = 0

\* search_invoices(question, user_id, top_k): one index.query for 2 * top_k
\* matches, re-ranked and cut to top_k
Search(top_k, matches) ==
    /\ searches = 0
    /\ matches \in QueryResults(FilterDict(user_id), 2 * top_k)
    /\ results' = [top_k |-> top_k, requested |-> 2 * top_k, matches |-> matches]
    /\ vector_results' = search_invoices(matches, question, top_k)
    /\ searches' = searches + 1
    /\ UNCHANGED <<deployed, pending, memories, svc, pc, question, user_id, session_id,
                   before, chat_history, strategy, order_id, thinking_steps, sources,
                   metadata_context, context, prompt, answer, response, db_open,
                   db_failed>>

NextSearch ==
    \E top_k \in 1..MaxTopK :
        \E matches \in QueryResults(FilterDict(user_id), 2 * top_k) :
            Search(top_k, matches)

SpecSearch == InitSearch /\ [][NextSearch]_vars

(*------------------------------ the properties --------------------------*)

\* the record the request returned
Returned == CHOOSE r \in response : TRUE

\* the question holds an order identifier token: five digits between word
\* boundaries
HasOrderToken(q) == SearchFiveDigits(q) # ""

\* C1: a question that holds an order identifier token is resolved as
\* direct_sql by the exact-match path whatever else it holds: the LangChain
\* service chooses direct_sql for it, and the agent service takes it to the
\* exact lookup without searching or classifying.
C1_IdentifierShortCircuits ==
    /\ (svc = "langchain" /\ HasOrderToken(question)) => strategy = "direct_sql"
    /\ (svc = "agent" /\ HasOrderToken(question)) =>
           /\ order_id # ""
           /\ pc \in {"agent_exact", "returned", "raised"}
           /\ searches = 0

\* C2: the history returned for a session never holds more than the k most
\* recent exchanges, that is 2k messages.
C2_MemoryWindow ==
    (svc = "history" /\ pc = "returned") => Len(Returned.history) <= 2 * WindowK

\* C3: a LangChain request reads its session's messages once, in its first
\* step, where the history of the prompt is rendered from the messages as
\* they were before the request; the messages of a session change in one
\* step only, the last one of a completed request, which appends the question
\* and the final answer to the request's session and returns.
C3_MemoryReadOnceWrittenOnce ==
    [][/\ (\E s \in DOMAIN memories' : Messages(memories', s) # Messages(memories, s)) =>
              /\ pc = "lc_save" /\ pc' = "returned"
              /\ \A s \in DOMAIN memories' :
                     Messages(memories', s) =
                         IF s = session_id
                         THEN Messages(memories, s)
                              \o <<HumanMessage(question), AIMessage(answer)>>
                         ELSE Messages(memories, s)
       /\ (svc' = "langchain" /\ chat_history' # chat_history) =>
              /\ pc = "idle"
              /\ chat_history' = LC_format_chat_history(Messages(memories, session_id'))
       /\ (svc = "langchain" /\ pc # "returned" /\ pc' = "returned") =>
              /\ prompt.chat_history = chat_history
              /\ Messages(memories', session_id) =
                     Messages(before, session_id)
                     \o <<HumanMessage(question), AIMessage(answer)>>
      ]_vars

\* a second question of a session has been answered and saved, with a
\* history in its prompt
C3_Witness ==
    /\ svc = "langchain" /\ pc = "returned"
    /\ Len(Messages(memories, session_id)) = 4
    /\ prompt.chat_history # NoPreviousConversation

\* C4: a failure of the structured query does not end the request with an
\* exception: the step in which the query fails goes on to the answer, on the
\* exact lookup path as on the classified paths.
C4_QueryFailureStillAnswers ==
    [][(~db_failed /\ db_failed') => pc' # "raised"]_vars

\* a condition of the WHERE clause restricts the rows to the tenant
TenantCondition(cond, tenant) ==
    cond.kind \in {"user_eq", "user_text", "user_param"} /\ cond.uid = tenant

\* every row is a row of the tenant
RowsOfTenant(rows, tenant) ==
    \A i \in 1..Len(rows) :
        "error" \notin DOMAIN rows[i] => Some(rows[i].user_id) = tenant

\* C5: when a tenant is given, every structured query of the request holds a
\* condition on that tenant, and no structured query or vector search of the
\* request returns a record of another tenant.
C5_TenantScoped ==
    user_id # None =>
        /\ \A i \in 1..Len(vector_results) :
               Some(vector_results[i].metadata.user_id) = user_id
        /\ \A q \in sources.database_query :
               \E k \in 1..Len(q.conds) : TenantCondition(q.conds[k], user_id)
        /\ RowsOfTenant(sources.sql_results, user_id)
        /\ (svc = "agent" /\ order_id # "" /\ pc = "returned") =>
               RowsOfTenant(Returned.sources.sql_results, user_id)

\* the aggregation and enumeration keywords of the classification
AggregationKeywords ==
    {"how many", "count", "total", "sum", "average", "most", "least",
     "top", "bottom", "all orders", "all customers", "all products"}

HasAggregationKeyword(q) == \E k \in AggregationKeywords : Contains(Lower(q), k)

\* the agent request has been classified
AgentClassified == svc = "agent" /\ order_id = "" /\ strategy # ""

\* C6: an agent request without an identifier match is classified by the
\* first rule that applies: a keyword in the question gives the structured
\* path, else a customer or an order in the extracted metadata gives the
\* structured path, else the vector-only path; so the vector-only path is
\* taken exactly when no keyword occurs and both sets are empty.
C6_ClassificationOrder ==
    AgentClassified =>
        /\ strategy = (IF HasAggregationKeyword(question) THEN "sql"
                       ELSE IF metadata_context.customers # {}
                               \/ metadata_context.order_ids # {}
                            THEN "sql"
                            ELSE "vector")
        /\ strategy = "vector" <=>
               /\ ~HasAggregationKeyword(question)
               /\ metadata_context.customers = {}
               /\ metadata_context.order_ids = {}
        /\ pc \in {"agent_sql", "agent_combined_answer"} => strategy = "sql"
        /\ pc = "agent_vector_answer" => strategy = "vector"

\* a question without a keyword goes to the structured path because the
\* search found a customer
C6_Witness ==
    /\ AgentClassified /\ pc = "agent_sql"
    /\ ~HasAggregationKeyword(question)
    /\ metadata_context.customers # {}

\* the question matches one of the six structural patterns, read as the
\* regular expressions they are written as
MatchesStructuralPattern(q) ==
    \/ \E prefix \in {"order id ", "invoice ", "order ", "total price ", "dated "} :
           SearchPrefixDigits(Lower(q), prefix) # ""
    \/ \E i \in 1..Len(q) :
           /\ MatchAt(Lower(q), "customer ", i)
           /\ i + 9 <= Len(q)
           /\ IsWord(Ch(Lower(q), i + 9))

\* the questions of the evaluation whose type expects direct_sql
EvaluationDirectSql ==
    {"Show me invoice with Order ID 10250",
     "What invoices are for Mario Pontes?",
     "Show me VICTE customer orders",
     "Which invoice has total price 2490.5?",
     "Show invoices from July 15, 2016"}

\* C7: the LangChain service chooses direct_sql exactly for the questions
\* that match one of its structural patterns, and for the exact-match,
\* customer-lookup, amount-lookup and date-filter questions of the evaluation.
C7_StructuralPatternsRouted ==
    svc = "langchain" =>
        /\ strategy = "direct_sql" <=> MatchesStructuralPattern(question)
        /\ question \in EvaluationDirectSql => strategy = "direct_sql"

\* the structured query the request made
QueryMade == CHOOSE q \in sources'.database_query : TRUE

\* the step that executes the structured query does not end the request
\* with an exception and leaves the error row, or the result rows, in sources
ExecuteStepReturns ==
    pc \in {"lc_direct_sql", "agent_sql"} =>
        /\ pc' # "raised"
        /\ sources'.database_query # None
        /\ IF db_failed'
           THEN /\ Len(sources'.sql_results) = 1
                /\ DOMAIN sources'.sql_results[1] = {"error"}
                /\ \E down \in BOOLEAN :
                       /\ DbExecute(QueryMade, down).failed
                       /\ sources'.sql_results[1].error = DbExecute(QueryMade, down).error
           ELSE sources'.sql_results =
                    [i \in 1..Len(MatchingRows(QueryMade)) |->
                        RowMapping(MatchingRows(QueryMade)[i])]

\* C8: _execute_sql_query of either service never raises: a failed execution
\* is returned as exactly one row {error: message} and a successful one as
\* the result rows in result order.
C8_ExecuteNeverRaises == [][ExecuteStepReturns]_vars

\* the LangChain service composes its answer from the one error row of a
\* failed query
C8_Witness ==
    /\ svc = "langchain" /\ pc = "lc_generate" /\ db_failed
    /\ Len(sources.sql_results) = 1
    /\ prompt.data = sources.sql_results

\* the request ended in the exception of the vector search
VectorSearchRaised ==
    /\ svc = "langchain" /\ pc = "raised"
    /\ strategy = "vector_search" /\ searches = 1 /\ context = ""

\* C9, as stated: when the vector search fails no record is returned and the
\* session store is as it was before the request.
C9_StoreAsBefore ==
    VectorSearchRaised => (response = None /\ memories = before)

\* C9, amended: when the vector search fails no record is returned and no
\* session's messages have changed; the store differs from the one before
\* the request at most by an empty memory for the request's session.
C9_MessagesAsBefore ==
    VectorSearchRaised =>
        /\ response = None
        /\ DOMAIN memories = DOMAIN before \cup {session_id}
        /\ \A s \in DOMAIN memories : Messages(memories, s) = Messages(before, s)

\* the search fails in a request of a session that holds an exchange
C9_Witness ==
    /\ VectorSearchRaised
    /\ Messages(before, session_id) # <<>>

\* the LangChain service has composed the semantic context
ContextComposed == svc = "langchain" /\ strategy = "vector_search" /\ context # ""

\* C10: the semantic context of the LangChain service holds no hit that
\* scores 0.7 or less, and when no hit scores more it is the marker "No
\* highly relevant results found."; it is never empty once composed.
C10_OnlyAboveThreshold ==
    /\ (svc = "langchain" /\ pc \in {"lc_generate", "lc_save", "returned"}
        /\ strategy = "vector_search") => context # ""
    /\ ContextComposed =>
           /\ \A i \in 1..Len(vector_results) :
                  vector_results[i].score <= RelevanceThreshold =>
                      ~Contains(context, LC_context_line(vector_results[i]))
           /\ (\A i \in 1..Len(vector_results) :
                   vector_results[i].score <= RelevanceThreshold) =>
                  context = NoRelevantResults

\* an invoice hit scoring exactly 0.7 is left out of a context that holds
\* another hit
C10_Witness ==
    /\ ContextComposed
    /\ context # NoRelevantResults
    /\ \E i \in 1..Len(vector_results) :
           /\ vector_results[i].score = RelevanceThreshold
           /\ vector_results[i].metadata.type = "invoice"

\* the question holds no order token, no structural pattern and no customer
\* name
NoEntityMatch(q) ==
    /\ ~HasOrderToken(q)
    /\ ~MatchesStructuralPattern(q)
    /\ SearchCustomer(q) = ""

\* every hit the search returned scores 0.7 or less
AllHitsBelow ==
    \A i \in 1..Len(vector_results) : vector_results[i].score <= RelevanceThreshold

HoldsPatternText(q) ==
    \E p \in {"order id \\d+", "invoice \\d+", "order \\d+",
              "customer \\w+", "total price \\d+", "dated \\d+"} :
        Contains(Lower(q), p)

ExactFoundNoRow ==
    /\ svc = "agent" /\ order_id # ""
    /\ pc \in {"returned", "raised"}
    /\ ~db_failed
    /\ MatchingRows(Agent_exact_query(order_id, user_id)) = <<>>

\* C12, as stated: an exact lookup that finds no row returns the "No invoice
\* found" answer with an empty sources payload: no query, no rows, no hits.
C12_NotFoundEmptySources ==
    ExactFoundNoRow =>
        /\ pc = "returned"
        /\ Returned.answer = "No invoice found with Order ID " \o order_id \o "."
        /\ Returned.sources.database_query = None
        /\ Returned.sources.sql_results = <<>>

\* C12, amended: an exact lookup that finds no row returns the "No invoice
\* found" answer with a sources record that holds the text of the query and
\* an empty list of rows.
C12_NotFoundAnswered ==
    ExactFoundNoRow =>
        /\ pc = "returned"
        /\ Returned.answer = "No invoice found with Order ID " \o order_id \o "."
        /\ Len(Returned.thinking) = 2
        /\ DOMAIN Returned.sources = {"database_query", "sql_results"}
        /\ Returned.sources.database_query = Some(Agent_exact_query(order_id, user_id))
        /\ Returned.sources.sql_results = <<>>

\* order 99999 does not exist
C12_Witness ==
    /\ ExactFoundNoRow
    /\ order_id = "99999"
    /\ response # None

\* the structured query of the request, once built
BuiltQuery == CHOOSE q \in sources.database_query : TRUE

\* the agent service has built the query for the count question about Mario
\* Pontes from a FilterContext that holds this one customer
CountScenario ==
    /\ svc = "agent" /\ sources.database_query # None
    /\ question = "How many orders for customer Mario Pontes?"
    /\ metadata_context.customers = {"Mario Pontes"}

\* C13, as stated: in the scenario the strategy is the structured one and the
\* query groups by customer name with a count aggregate.
C13_CountGroupsByCustomer ==
    CountScenario =>
        /\ strategy = "sql"
        /\ Agent_query_text[BuiltQuery.shape].group_by = "i.contact_name"
        /\ \E k \in 1..Len(Agent_query_text[BuiltQuery.shape].select) :
               MatchAt(Agent_query_text[BuiltQuery.shape].select[k], "COUNT(", 1)

\* C13, amended: in the scenario the strategy is the structured one and the
\* query counts the distinct orders and the distinct customers of the rows
\* of that customer, without grouping.
C13_CountDistinctWithoutGroup ==
    CountScenario =>
        /\ strategy = "sql"
        /\ BuiltQuery.shape = "count"
        /\ Agent_query_text[BuiltQuery.shape].select =
               <<"COUNT(DISTINCT i.order_id)", "COUNT(DISTINCT i.contact_name)">>
        /\ Agent_query_text[BuiltQuery.shape].group_by = ""
        /\ \E k \in 1..Len(BuiltQuery.conds) :
               BuiltQuery.conds[k] = Cond("in", "contact_name", <<"Mario Pontes">>, None)

\* the scenario, with the count returned to the caller
C13_Witness ==
    /\ CountScenario
    /\ pc = "returned" /\ ~db_failed
    /\ Returned.sources.database_query = sources.database_query

\* the request was resolved on a structured path and has returned
StructuredReturned ==
    /\ pc = "returned"
    /\ \/ svc = "langchain" /\ strategy = "direct_sql"
       \/ svc = "agent" /\ strategy = "sql"
       \/ svc = "agent" /\ order_id # ""

\* C14, as stated: the sources returned from a structured path hold a query
\* and no hit of the vector search.
C14_StructuredSourcesNoHits ==
    StructuredReturned =>
        /\ Returned.sources.database_query # None
        /\ "vector_search" \in DOMAIN Returned.sources =>
               Returned.sources.vector_search = <<>>

\* C14, amended: the sources returned from a structured path hold a query;
\* their vector_search is empty on the direct_sql path of the LangChain
\* service, is not there in the record of the exact lookup, and on the
\* classified structured path of the agent service lists the first ten hits
\* of the search made before the classification, by rank.
C14_StructuredSources ==
    StructuredReturned =>
        /\ Returned.sources.database_query # None
        /\ svc = "langchain" => Returned.sources.vector_search = <<>>
        /\ (svc = "agent" /\ order_id # "") =>
               "vector_search" \notin DOMAIN Returned.sources
        /\ (svc = "agent" /\ order_id = "") =>
               /\ Len(Returned.sources.vector_search) = Len(Take(vector_results, 10))
               /\ \A i \in 1..Len(Returned.sources.vector_search) :
                      /\ Returned.sources.vector_search[i].rank = i
                      /\ Returned.sources.vector_search[i].score = vector_results[i].score
                      /\ Returned.sources.vector_search[i].order_id =
                             vector_results[i].metadata.order_id

\* the agent service returns from its structured path with the hits of its
\* search in the sources
C14_Witness ==
    /\ StructuredReturned
    /\ svc = "agent" /\ strategy = "sql"
    /\ Len(Returned.sources.vector_search) = 2

\* the query the step builds is the same for every order in which the two
\* filter sets may be listed
QueryIndependentOfOrder ==
    (pc = "agent_sql" /\ sources'.database_query # None) =>
        \A customer_list \in Orderings(metadata_context.customers),
           order_list \in Orderings(metadata_context.order_ids) :
            sources'.database_query =
                Some(Agent_build_targeted_sql(question, metadata_context, user_id,
                                              customer_list, order_list))

\* C15: the text of the query _build_targeted_sql builds is determined by the
\* question, the filter sets and the tenant: it does not depend on the order
\* in which the members of the sets are listed.
C15_QueryTextDetermined == [][QueryIndependentOfOrder]_vars

\* the keyword families of the query shapes
CountStyle(q) == \E k \in {"how many orders", "count orders"} : Contains(Lower(q), k)

SpendStyle(q) ==
    \E k \in {"total spent", "how much", "total amount"} : Contains(Lower(q), k)

PopularityStyle(q) ==
    \E k \in {"most ordered", "popular product", "top product"} : Contains(Lower(q), k)

\* the agent service has built its targeted query
TargetedQueryBuilt == svc = "agent" /\ order_id = "" /\ sources.database_query # None

\* C16: _build_targeted_sql builds one of four queries, the first in this
\* priority whose keywords occur in the question: the count of distinct
\* orders and customers; the sum of totals and the order count per customer,
\* by sum descending; the summed quantity and distinct order count per
\* product, by quantity descending, at most 10 rows; else the listing with
\* its line items, by date descending, at most 50 rows.
C16_ShapeByPriority ==
    TargetedQueryBuilt =>
        LET shape == BuiltQuery.shape
            text == Agent_query_text[shape]
        IN /\ shape = (IF CountStyle(question) THEN "count"
                       ELSE IF SpendStyle(question) THEN "spent_by_customer"
                       ELSE IF PopularityStyle(question) THEN "product_quantity"
                       ELSE "detail")
           /\ shape = "count" =>
                  /\ text.select = <<"COUNT(DISTINCT i.order_id)",
                                     "COUNT(DISTINCT i.contact_name)">>
                  /\ text.group_by = "" /\ BuiltQuery.limit = 0
           /\ shape = "spent_by_customer" =>
                  /\ text.select = <<"i.contact_name", "SUM(i.total_price)",
                                     "COUNT(i.order_id)">>
                  /\ text.group_by = "i.contact_name"
                  /\ text.order_by = "total_spent DESC" /\ BuiltQuery.limit = 0
           /\ shape = "product_quantity" =>
                  /\ text.select = <<"li.product_name", "SUM(li.quantity)",
                                     "COUNT(DISTINCT i.order_id)">>
                  /\ text.group_by = "li.product_name"
                  /\ text.order_by = "total_quantity DESC" /\ BuiltQuery.limit = 10
           /\ shape = "detail" =>
                  /\ MatchAt(text.join, "LEFT JOIN line_items", 1)
                  /\ text.group_by = ""
                  /\ text.order_by = "i.invoice_date DESC" /\ BuiltQuery.limit = 50

\* a question with the keywords of the count and of the spend family gets
\* the count query
C16_Witness ==
    /\ TargetedQueryBuilt
    /\ CountStyle(question) /\ SpendStyle(question)
    /\ BuiltQuery.shape = "count"

\* vals lists every member of the set S once
Listing(vals, S) ==
    /\ Len(vals) = Cardinality(S)
    /\ {vals[i] : i \in 1..Len(vals)} = S

\* the number of conditions the claim gives the WHERE clause
ExpectedConditions ==
    (IF user_id # None THEN 1 ELSE 0)
    + (IF metadata_context.customers # {} THEN 1 ELSE 0)
    + (IF metadata_context.order_ids # {} THEN 1 ELSE 0)

\* C17: the WHERE clause of _build_targeted_sql is the conjunction of exactly
\* the tenant condition when a tenant is given, contact_name IN (every
\* customer of the set) when the set is not empty and order_id IN (every order
\* of the set) when that set is not empty; it is 1=1 when there is none of
\* the three.
C17_WhereClause ==
    TargetedQueryBuilt =>
        LET conds == BuiltQuery.conds
        IN IF ExpectedConditions = 0
           THEN conds = <<Cond("true", "", <<>>, None)>>
           ELSE /\ Len(conds) = ExpectedConditions
                /\ user_id # None =>
                       \E k \in 1..Len(conds) :
                           conds[k] = Cond("user_eq", "user_id", <<>>, user_id)
                /\ metadata_context.customers # {} =>
                       \E k \in 1..Len(conds) :
                           /\ conds[k].kind = "in" /\ conds[k].col = "contact_name"
                           /\ Listing(conds[k].vals, metadata_context.customers)
                /\ metadata_context.order_ids # {} =>
                       \E k \in 1..Len(conds) :
                           /\ conds[k].kind = "in" /\ conds[k].col = "order_id"
                           /\ Listing(conds[k].vals, metadata_context.order_ids)

\* t is a five-digit token of the question
IsOrderToken(q, t) ==
    \E i \in 1..Len(q) :
        /\ i + 4 <= Len(q)
        /\ WordBoundary(q, i) /\ AllDigits(q, i, i + 4) /\ WordBoundary(q, i + 5)
        /\ SubSeq(q, i, i + 4) = t

\* the score the claim gives a hit: raw + 0.3 for the order of the question's
\* token + 0.1 for an invoice
Adjusted(hit) ==
    hit.score
    + (IF HasOrderToken(question) /\ hit.metadata.order_id = SearchFiveDigits(question)
       THEN 30 ELSE 0)
    + (IF hit.metadata.type = "invoice" THEN 10 ELSE 0)

\* where the hit with this metadata stands in the list
PositionOf(hits, metadata) ==
    CHOOSE j \in 1..Len(hits) : hits[j].metadata = metadata

\* the list after the step is the list before it with the adjusted scores,
\* by score descending, hits of equal score in the order they had
RerankedStably ==
    /\ Len(vector_results') = Len(vector_results)
    /\ \A i \in 1..Len(vector_results) :
           \E j \in 1..Len(vector_results') :
               /\ vector_results'[j].metadata = vector_results[i].metadata
               /\ vector_results'[j].score = Adjusted(vector_results[i])
    /\ \A j \in 1..Len(vector_results') - 1 :
           vector_results'[j].score >= vector_results'[j + 1].score
    /\ \A i, k \in 1..Len(vector_results) :
           (i < k /\ Adjusted(vector_results[i]) = Adjusted(vector_results[k])) =>
               PositionOf(vector_results', vector_results[i].metadata)
               < PositionOf(vector_results', vector_results[k].metadata)

\* C18: _rerank_results returns the hits it was given, none added and none
\* dropped, each with its raw score + 0.3 when its order is the token of the
\* question + 0.1 when it is an invoice, sorted by that score descending,
\* hits of equal score in their input order.
C18_RerankStableSort == [][searches' = searches + 1 => RerankedStably]_vars

\* three hits have been re-ranked: an invoice of the question's order, which
\* got both boosts, stands first, and two hits of equal score follow
C18_Witness ==
    /\ searches = 1 /\ Len(vector_results) = 3
    /\ HasOrderToken(question)
    /\ vector_results[1].metadata.type = "invoice"
    /\ vector_results[1].metadata.order_id = SearchFiveDigits(question)
    /\ vector_results[1].score = 140
    /\ vector_results[2].score = vector_results[3].score

\* no boost applies to a hit of the list
NoBoostApplies ==
    \A i \in 1..Len(vector_results) :
        /\ vector_results[i].metadata.type # "invoice"
        /\ ~(HasOrderToken(question)
             /\ vector_results[i].metadata.order_id = SearchFiveDigits(question))

\* C19: when no boost applies, _rerank_results applied to its own output
\* returns the same sequence with the same scores.
C19_RerankIdempotent ==
    [][(searches >= 1 /\ searches' = searches + 1 /\ NoBoostApplies) =>
           vector_results' = vector_results]_vars

\* a list of two hits of equal score that no boost applies to has been
\* re-ranked twice
C19_Witness ==
    /\ searches = 2 /\ Len(vector_results) >= 2
    /\ NoBoostApplies
    /\ vector_results[1].score = vector_results[2].score

\* no hit of an order the question names scores lower after the step
NoNamedHitLowered ==
    \A i \in 1..Len(vector_results) :
        IsOrderToken(question, vector_results[i].metadata.order_id) =>
            vector_results'[PositionOf(vector_results', vector_results[i].metadata)].score
            >= vector_results[i].score

\* C20: a hit whose order is a token of the question scores no lower after
\* _rerank_results than before.
C20_RerankMonotonic == [][searches' = searches + 1 => NoNamedHitLowered]_vars

\* a line item of the question's order has been raised from 0.6 to 0.9, and
\* a hit of the second order the question names has kept its score
C20_Witness ==
    /\ searches = 1
    /\ question = "Compare 10252 with 10250"
    /\ \E i, j \in 1..Len(vector_results) :
           /\ vector_results[i].metadata.type = "invoice"
           /\ vector_results[i].metadata.order_id = "10252"
           /\ vector_results[i].score = 100
           /\ vector_results[j].metadata.type # "invoice"
           /\ vector_results[j].metadata.order_id = "10250"
           /\ vector_results[j].score = 60

\* the dates the hits carry
DatesOf(hits) ==
    {hits[i].metadata.invoice_date : i \in 1..Len(hits)} \ {""}

\* d is the smallest (largest) of the dates, or null when there is none
IsSmallest(d, dates) ==
    IF dates = {} THEN d = ""
    ELSE d \in dates /\ \A e \in dates : ~TextLess(e, d)

IsLargest(d, dates) ==
    IF dates = {} THEN d = ""
    ELSE d \in dates /\ \A e \in dates : ~TextLess(d, e)

\* ctx is what the claim says the hits give: each set holds the values the
\* hits carry for its field, an absent field adding nothing, and the date
\* range runs from the smallest to the largest date
IsContextOf(ctx, hits) ==
    /\ ctx.customers = {hits[i].metadata.contact_name : i \in 1..Len(hits)} \ {""}
    /\ ctx.order_ids = {hits[i].metadata.order_id : i \in 1..Len(hits)} \ {""}
    /\ ctx.products = {hits[i].metadata.product_name : i \in 1..Len(hits)} \ {""}
    /\ ctx.invoice_ids = UNION {hits[i].metadata.invoice_id : i \in 1..Len(hits)}
    /\ IsSmallest(ctx.date_range.min, DatesOf(hits))
    /\ IsLargest(ctx.date_range.max, DatesOf(hits))

ExtractedAsClaimed ==
    pc' = "extracted" =>
        /\ IsContextOf(metadata_context', vector_results')
        /\ searches >= 1 => metadata_context' = metadata_context

\* C21: _extract_metadata_context gives each set the values the hits carry
\* for its field (a hit without the field adds nothing, a repeated value is
\* held once), a date range from the smallest to the largest date of the hits
\* (both null iff no hit carries a date), and the same context for the same
\* hits in another order.
C21_ExtractOrderIndependent == [][ExtractedAsClaimed]_vars

\* a list with a repeated hit, a hit without a date and two different dates,
\* the later one first, has been reordered and extracted again
C21_Witness ==
    /\ pc = "extracted" /\ searches >= 1
    /\ Len(vector_results) = 3
    /\ \E i, j \in 1..3 : i < j /\ vector_results[i].metadata.invoice_date = "2016-07-08"
                          /\ vector_results[j].metadata.invoice_date = "2016-06-30"
    /\ \E i \in 1..3 : vector_results[i].metadata.invoice_date = ""
    /\ metadata_context.date_range = [min |-> "2016-06-30", max |-> "2016-07-08"]

\* C22: the extraction of an empty hit sequence has empty customers, order
\* identifiers, products and invoice identifiers and a date range whose min
\* and max are both null.
C22_EmptyHitsEmptyContext ==
    (pc = "extracted" /\ vector_results = <<>>) =>
        /\ metadata_context.customers = {}
        /\ metadata_context.order_ids = {}
        /\ metadata_context.products = {}
        /\ metadata_context.invoice_ids = {}
        /\ metadata_context.date_range = [min |-> "", max |-> ""]

\* an empty hit sequence has been extracted
C22_Witness ==
    /\ pc = "extracted" /\ vector_results = <<>>
    /\ metadata_context.total_results = 0

\* exchanges rendered by _format_chat_history
MaxTurns == 3

\* the lines of the exchanges from the k-th on: the question, then its answer
RECURSIVE TurnsFrom(_, _)
TurnsFrom(messages, k) ==
    IF 2 * k > Len(messages) THEN ""
    ELSE "Human: " \o messages[2 * k - 1].content
         \o "\nAssistant: " \o messages[2 * k].content
         \o (IF 2 * (k + 1) > Len(messages) THEN "" ELSE "\n")
         \o TurnsFrom(messages, k + 1)

\* the history has been rendered for the request in progress
HistoryRendered ==
    svc = "langchain" /\ pc \in {"lc_direct_sql", "lc_vector_search", "lc_generate", "lc_save"}

\* C23: _format_chat_history renders the latest three exchanges of the
\* session (three is no more than the window k), oldest first, as alternating
\* Human: and Assistant: lines, and renders 'No previous conversation.' if and
\* only if the session has no history yet.
C23_HistoryRendered ==
    HistoryRendered =>
        LET messages == Messages(before, session_id)
            turns == Len(messages) \div 2
            first == IF turns > MaxTurns THEN turns - MaxTurns + 1 ELSE 1
        IN /\ MaxTurns <= WindowK
           /\ (chat_history = "No previous conversation.") <=> (turns = 0)
           /\ turns > 0 => chat_history = TurnsFrom(messages, first)

\* a session of four exchanges, the first of them unlike the rest, is
\* rendered: the first exchange is left out
C23_Witness ==
    /\ HistoryRendered
    /\ Len(Messages(before, session_id)) = 8
    /\ before[session_id][1].content = "hello"
    /\ \A k \in 2..4 : before[session_id][2 * k - 1].content # "hello"

\* both requests bear the same session key and both have been answered
BothAnswered(p) ==
    /\ DOMAIN p = {1, 2}
    /\ p[1].session_id = p[2].session_id
    /\ \A r \in {1, 2} : p[r].state = "returned"

\* the session's history is the two exchanges, in one order or the other
BothStored(p, store) ==
    \E a, b \in {1, 2} :
        /\ a # b
        /\ Messages(store, p[1].session_id) =
               <<HumanMessage(p[a].question), AIMessage(p[a].answer),
                 HumanMessage(p[b].question), AIMessage(p[b].answer)>>

ConcurrentRequestsKept ==
    /\ (svc = "" /\ svc' = "langchain" /\ session_id' \in DOMAIN memories) =>
           memories' = memories
    /\ BothAnswered(pending') => BothStored(pending', memories')

\* C24: of two requests received together with the same session key, the
\* one handled second finds the memory the first created (get_memory creates
\* it at most once), and when both have returned the session's history holds
\* both exchanges, whichever was handled first.
C24_NoLostAppend == [][ConcurrentRequestsKept]_vars

\* two requests with different questions and one session key have both
\* returned, the second of them handled first
C24_Witness ==
    /\ pc = "idle"
    /\ BothAnswered(pending)
    /\ pending[1].question # pending[2].question
    /\ memories[pending[1].session_id][1] = HumanMessage(pending[2].question)
    /\ Len(memories[pending[1].session_id]) = 4

\* the steps the claim's state machine allows after each step; an exception
\* ends the question wherever it is raised
PathAfter ==
    [idle |-> {"agent_exact", "agent_search", "lc_direct_sql", "lc_vector_search",
               "returned"},
     agent_exact |-> {"returned", "raised"},
     agent_search |-> {"agent_sql", "agent_vector_answer", "raised"},
     agent_sql |-> {"agent_combined_answer", "raised"},
     agent_combined_answer |-> {"returned", "raised"},
     agent_vector_answer |-> {"returned", "raised"},
     lc_direct_sql |-> {"lc_generate", "raised"},
     lc_vector_search |-> {"lc_generate", "raised"},
     lc_generate |-> {"lc_save", "raised"},
     lc_save |-> {"returned"},
     returned |-> {"idle"},
     raised |-> {"idle"}]

\* the steps that call the generation backend
GenerationSteps == {"agent_combined_answer", "agent_vector_answer", "lc_generate"}

OnePassPath ==
    /\ pc' \in PathAfter[pc]
    /\ pc = "idle" => (pc' = "agent_exact" <=> (svc' = "agent" /\ order_id' # ""))
    /\ pc = "agent_exact" => searches' = 0
    /\ searches' # searches =>
           \/ pc \in {"agent_search", "lc_vector_search"} /\ searches = 0 /\ searches' = 1
           \/ pc' = "idle" /\ searches' = 0
    /\ pc' \in GenerationSteps => pc \notin GenerationSteps \cup {"agent_exact"}

\* C25: a question goes from its start either to the exact lookup and then
\* to its end, or to the classification and from there through the structured
\* or the semantic path to its end; the exact lookup makes no index query and
\* no generation call; the index is queried at most once per question, never
\* again after the re-ranking; the external calls are made one after another.
C25_OnePassPath == [][OnePassPath]_vars

\* an exact lookup has returned: no index query was made
C25_Witness ==
    /\ svc = "agent" /\ order_id # "" /\ pc = "returned"
    /\ response # None
    /\ searches = 0 /\ vector_results = <<>> /\ prompt = NoPrompt

\* C26: every structured-store session opened for a query is closed before
\* the call that opened it returns or raises, on the success path, the error
\* path and the not-found path: none is open between the steps of a request
\* or after it.
C26_SessionsClosed == db_open = 0

\* a structured query of the classified path has failed, its error row is in
\* the sources, and no session is open
C26_Witness ==
    /\ svc = "agent" /\ pc = "agent_combined_answer"
    /\ db_failed
    /\ sources.sql_results # <<>>
    /\ db_open = 0

\* the candidate is among the hits returned
IsReturned(candidate) ==
    \E j \in 1..Len(vector_results) :
        vector_results[j].metadata = candidate.metadata

\* C27: search_invoices asks the index for 2 x top_k candidates and returns
\* at most top_k hits: the candidates of that one query with the highest
\* adjusted scores, each with its adjusted score, by that score descending.
C27_TopKOfCandidates ==
    searches = 1 =>
        /\ results.requested = 2 * results.top_k
        /\ Len(results.matches) <= results.requested
        /\ Len(vector_results) =
               (IF Len(results.matches) < results.top_k
                THEN Len(results.matches) ELSE results.top_k)
        /\ \A j \in 1..Len(vector_results) :
               \E i \in 1..Len(results.matches) :
                   /\ vector_results[j].metadata = results.matches[i].metadata
                   /\ vector_results[j].score = Adjusted(results.matches[i])
        /\ \A j \in 1..Len(vector_results) - 1 :
               vector_results[j].score >= vector_results[j + 1].score
        /\ \A i \in 1..Len(results.matches) :
               ~IsReturned(results.matches[i]) =>
                   \A j \in 1..Len(vector_results) :
                       vector_results[j].score >= Adjusted(results.matches[i])

\* top_k = 1: of two candidates the one the index ranked second is returned,
\* raised above the first by the boost of the question's order
C27_Witness ==
    /\ searches = 1 /\ results.top_k = 1
    /\ Len(results.matches) = 2
    /\ Len(vector_results) = 1
    /\ results.matches[1].score > results.matches[2].score
    /\ vector_results[1].metadata = results.matches[2].metadata

\* the messages come in pairs, a human message and then an assistant message
Paired(messages) ==
    /\ Len(messages) % 2 = 0
    /\ \A i \in 1..Len(messages) :
           messages[i].role = (IF i % 2 = 1 THEN "human" ELSE "ai")

MessagesStayPaired ==
    /\ pc' = "idle" => \A s \in DOMAIN memories' : Paired(memories'[s])
    /\ \A s \in DOMAIN memories' :
           memories'[s] # Messages(memories, s) =>
               /\ response' # None
               /\ s = session_id
               /\ \E record \in response' :
                      memories'[s] = Messages(memories, s)
                                     \o <<HumanMessage(question), AIMessage(record.answer)>>

\* C28: between requests every session's messages are an even number of
\* messages that alternate human, assistant from a human message on, and a
\* session's messages grow only by a request's question followed by the
\* answer returned for it.
C28_MessagesPaired == [][MessagesStayPaired]_vars

\* between requests a session holds two exchanges and the other session one
C28_Witness ==
    /\ pc = "idle"
    /\ \E s, t \in DOMAIN memories :
           /\ s # t
           /\ Len(memories[s]) = 4 /\ Len(memories[t]) = 2
           /\ memories[s][2].role = "ai" /\ memories[s][3].role = "human"

\* the session key of the request that takes the step
StepSession == IF pc = "idle" THEN session_id' ELSE session_id

SessionsIsolated ==
    /\ DOMAIN memories \subseteq DOMAIN memories'
    /\ \A s \in DOMAIN memories' :
           s # StepSession => (s \in DOMAIN memories /\ memories'[s] = memories[s])
    /\ svc' = "history" =>
           /\ memories' = memories
           /\ \E record \in response' :
                  session_id' \notin DOMAIN memories => record.history = <<>>

\* C29: a step of answer_question for a session key leaves the messages of
\* every other session as they were, and get_conversation_history leaves the
\* whole mapping as it was: it creates no session, and returns the empty
\* history for a key the mapping does not hold.
C29_SessionIsolation == [][SessionsIsolated]_vars

\* the history of a key the mapping does not hold has been asked for while
\* another session holds an exchange: it is empty and the key is still absent
C29_Witness ==
    /\ svc = "history" /\ pc = "returned"
    /\ session_id \notin DOMAIN memories
    /\ \E s \in DOMAIN memories : Len(memories[s]) >= 2
    /\ Returned.history = <<>>

\* C30: a hit comes back from search_invoices with the similarity the index
\* gave it, and the semantic context of the LangChain service leaves out
\* every hit whose similarity from the index is 0.7 or less.
C30_ThresholdOnRawScore ==
    (svc = "langchain" /\ strategy = "vector_search"
     /\ pc \in {"lc_generate", "lc_save", "returned"}) =>
        \A i \in 1..Len(results.matches) :
            /\ \A j \in 1..Len(vector_results) :
                   vector_results[j].metadata = results.matches[i].metadata =>
                       vector_results[j].score = results.matches[i].score
            /\ results.matches[i].score <= RelevanceThreshold =>
                   ~Contains(context, LC_context_line(results.matches[i]))

====
